---- MODULE Spec2Model ----
(***************************************************************************)
(* Model of server-dice-roll: the EntropyPool (addEntropy, getRandomBytes, *)
(* timing and system collection, periodic collection), secureRandomInt,    *)
(* the dice helpers (rollSingleDie, rollFateDie, rollDice) and the         *)
(* notation parser (parseDiceNotation) with the zod schemas it validates   *)
(* against, and the unsigned 32-bit fields collectSystemEntropy writes.     *)
(*                                                                         *)
(* Cryptographic digests cannot be computed here.  A digest is an          *)
(* arbitrary 64-byte string (SHA-512) drawn from a small family of         *)
(* patterns; the keyed PRF of getRandomBytes is an arbitrary function of   *)
(* (pool content, size) that is kept consistent with, and collision-free   *)
(* against, its most recent evaluation.                                    *)
(***************************************************************************)
EXTENDS Integers, Sequences, FiniteSets, TLC

VARIABLES
  size,          \* EntropyPool.size (constructor argument, default 1024)
  pool,          \* EntropyPool.pool: function 0..size-1 -> byte
  position,      \* EntropyPool.position
  lastUpdate,    \* EntropyPool.lastUpdate (ms)
  initialized,   \* EntropyPool.initialized
  now,           \* Date.now() (ms)
  timers,        \* due times of the pending setTimeout callbacks
  hasRandomInt,  \* typeof crypto.randomInt === "function"
  build,         \* which build of dice is running: "ts" (zod) or "lib" (zod/v4)
  sha,           \* which member of the digest family SHA-512 is in this behaviour
  op,            \* the operation that ran last
  opPrev,        \* the operation that ran before it
  ext,           \* record of the last direct getRandomBytes call
  extPrev,       \* record of the direct getRandomBytes call before that
  memo,          \* most recent PRF evaluation: (pool content, size) -> output
  call,          \* arguments, progress and result of the operation running
                 \* or run last
  pc,            \* "idle" when no JavaScript is running; else where the
                 \* running operation is: "rolling" inside the loop of
                 \* rollDice, "run" and "mix" inside a pool task, "parse",
                 \* "snapshot", "sampling" before the operation applied to
                 \* the inputs held in call
  nops,          \* number of operations run so far
  lastStrength,  \* strength argument of the most recent addEntropy, in hundredths
  proc           \* the server process: state, exit code, transport, watchdog

vars == <<size, pool, position, lastUpdate, initialized, now, timers, hasRandomInt,
          build, sha, op, opPrev, ext, extPrev, memo, call, pc, nops, lastStrength,
          proc>>

----------------------------------------------------------------------------
(* Bounds of the model *)

MaxOps == 2         \* pool operations per behaviour
MaxDiceOps == 1     \* dice operations per behaviour
MaxNow == 70000     \* the clock stops advancing here
MaxCount == 2       \* dice per roll
MaxLen == 5         \* characters per notation
SmallPool == 70     \* bytes of the pool constructed

(* Program constants *)

HashLen == 64
UpdateInterval == 60000
JitterMs == 10000
TimingStrength == 30
SystemStrength == 40
FeedbackStrength == 20
DefaultStrength == 50
MinStrength == 1
MaxStrength == 100
FateSides == 3

Byte == 0..255

\* new EntropyPool(size): the size constructed here (the default is 1024)
PoolSizes == {SmallPool}
TickSteps == {UpdateInterval, UpdateInterval + 1}
JitterSet == {0, JitterMs - 1}

Min(a, b) == IF a <= b THEN a ELSE b
Max(a, b) == IF a >= b THEN a ELSE b

----------------------------------------------------------------------------
(* addEntropy: the weighted overwrite.                                      *)
(* Strength is held in hundredths (20 = 0.2).  The source evaluates         *)
(* currentByte * (1 - s) + newByte * s in IEEE-754 doubles; for the pairs   *)
(* with newByte in FloorBelow<k>[currentByte + 1] the double sum falls just  *)
(* below the exact integer value and Math.floor returns one less than the   *)
(* exact quotient.  For s in {0.2, 0.5, 1.0} there is no such pair.         *)

FloorBelow1 ==
  <<
    {}, {}, {}, {3}, {}, {}, {6}, {}, {}, {}, {}, {}, {12}, {}, {}, {}, {}, {}, {}, {}, {}, {}, {},
    {}, {24,124}, {}, {}, {}, {}, {}, {}, {}, {}, {}, {}, {}, {}, {}, {}, {}, {}, {41,141}, {}, {},
    {}, {}, {}, {}, {48,148,248}, {}, {}, {}, {}, {}, {}, {}, {}, {}, {}, {}, {}, {}, {}, {}, {},
    {}, {}, {}, {}, {}, {}, {}, {}, {}, {}, {}, {}, {}, {}, {}, {}, {}, {82,182}, {}, {}, {}, {},
    {}, {}, {}, {}, {}, {}, {}, {}, {}, {96,196}, {}, {}, {}, {}, {}, {}, {}, {}, {}, {},
    {7,107,207}, {}, {}, {}, {}, {}, {}, {}, {}, {}, {}, {}, {}, {}, {21,121,221}, {}, {}, {}, {},
    {}, {}, {}, {}, {}, {}, {}, {}, {}, {}, {}, {}, {}, {39,139,239}, {}, {}, {}, {}, {}, {}, {},
    {}, {}, {}, {}, {}, {}, {}, {}, {}, {}, {}, {}, {}, {}, {}, {}, {}, {64,164}, {}, {}, {}, {},
    {}, {}, {}, {}, {}, {}, {}, {}, {}, {}, {}, {}, {}, {}, {}, {}, {}, {}, {}, {}, {89,189}, {},
    {}, {92,192}, {}, {}, {}, {}, {}, {}, {}, {}, {}, {}, {}, {}, {}, {}, {}, {}, {}, {}, {}, {},
    {}, {14,114,214}, {}, {}, {17,117,217}, {}, {}, {}, {}, {}, {}, {}, {}, {}, {}, {}, {}, {}, {},
    {}, {}, {}, {}, {}, {}, {}, {39,139,239}, {}, {}, {42,142,242}, {}, {}, {}, {}, {}, {}, {}, {},
    {}, {}, {}, {}, {}
  >>

FloorBelow30 ==
  <<
    {}, {31,41,51,101}, {62,72,82,92,102,192,202}, {3,223,233,243,253},
    {114,124,134,144,154,164,174,184,194,204}, {}, {6,36}, {57,67,77,87,197}, {218,228,238,248},
    {109,119,129,139,149,159,169,179,189}, {}, {1}, {2,12,22,62,72}, {223,233,243,253},
    {4,114,124,134,144,154,164,174}, {}, {}, {7,57,67}, {218,228,238,248},
    {9,109,119,129,139,149,159,169}, {}, {}, {2}, {3,13,23,53,223,233,243,253},
    {4,14,24,34,44,114,124,134,144,154}, {}, {}, {}, {8,18,218,228,238,248},
    {9,19,29,39,109,119,129,139}, {}, {}, {}, {3,13,23,223,233,243,253}, {4,14,24,114,124,134}, {},
    {}, {}, {8,18,218,228,238,248}, {9,109,119}, {}, {}, {}, {3,223,233,243,253}, {4}, {},
    {6,16,26,36,46,96,106}, {}, {8,18,28,38,48,58,68,78,88,98,218,228,238,248}, {}, {},
    {1,11,21,31,41,51}, {}, {3,13,23,33,43,53,63,73,83,223,233,243,253}, {}, {}, {6,16,26,36,46},
    {}, {8,18,28,38,48,58,68,78,218,228,238,248}, {}, {}, {1,11,21,31,41,51}, {},
    {3,13,23,33,43,53,63,223,233,243,253}, {}, {}, {6,16,26,36,46}, {},
    {8,18,28,38,48,218,228,238,248}, {}, {}, {1,11,21,31,41}, {}, {3,13,23,33,43,223,233,243,253},
    {}, {}, {6,16,26,36}, {}, {8,18,28,218,228,238}, {}, {}, {1,11,21}, {}, {3,13,223,233}, {},
    {5,15}, {6}, {}, {8,218}, {}, {0}, {1}, {2,12,22,32,42,52,62,72,82,92,102,192,202,212}, {}, {},
    {}, {6,16,26,36,46,56,66,76,86,96,106,116,126,136,146,156,166,176,186,196},
    {7,17,27,37,47,57,67,77,87,97,197}, {}, {}, {},
    {1,11,21,31,41,51,61,71,81,91,101,111,121,131,141,151,161,171,181,191},
    {2,12,22,32,42,52,62,72,82,92,102}, {}, {}, {},
    {6,16,26,36,46,56,66,76,86,96,106,116,126,136,146,156,166,176}, {7,17,27,37,47,57,67,77,87,97},
    {}, {}, {}, {1,11,21,31,41,51,61,71,81,91,101,111,121,131,141,151,161},
    {2,12,22,32,42,52,62,72,82,92,102}, {}, {}, {},
    {6,16,26,36,46,56,66,76,86,96,106,116,126,136,146,156}, {7,17,27,37,47,57,67,77,87,97}, {}, {},
    {}, {1,11,21,31,41,51,61,71,81,91,101,111,121,131,141}, {2,12,22,32,42,52,62,72,82,92,102}, {},
    {}, {}, {6,16,26,36,46,56,66,76,86,96,106,116,126}, {7,17,27,37,47,57,67,77,87,97}, {}, {}, {},
    {1,11,21,31,41,51,61,71,81,91,101,111,121}, {2,12,22,32,42,52,62,72,82,92,102}, {}, {}, {},
    {6,16,26,36,46,56,66,76,86,96,106}, {7,17,27,37,47,57,67,77,87,97}, {}, {}, {},
    {1,11,21,31,41,51,61,71,81,91}, {2,12,22,32,42,52,62,72,82,92}, {}, {}, {},
    {6,16,26,36,46,56,66,76,86}, {7,17,27,37,47,57,67,77}, {}, {}, {}, {1,11,21,31,41,51,61,71},
    {2,12,22,32,42,52,62,72}, {}, {}, {}, {6,16,26,36,46,56}, {7,17,27,37,47,57}, {}, {}, {},
    {1,11,21,31,41,51}, {2,12,22,32,42}, {}, {}, {5,15,25,35}, {6,16,26,36}, {7,17,27,37}, {}, {},
    {0,10,20,30}, {1,11,21}, {2,12,22}, {}, {}, {5,15}, {6,16}, {7}, {}, {}, {0}, {1}, {2}, {},
    {4,14,24,34,44,54,64,74,84,94,104,114,124,134,144,154,164,174,184,194,204}, {}, {}, {}, {},
    {9,19,29,39,49,59,69,79,89,99,109,119,129,139,149,159,169,179,189,199,209}, {}, {},
    {2,12,22,32,42,52,62,72,82,92,102,112,122,132,142,152,162,172,182,192,202,212,222,232,242,252},
    {}, {4,14,24,34,44,54,64,74,84,94,104,114,124,134,144,154,164,174,184,194,204}, {}, {},
    {7,17,27,37,47,57,67,77,87,97,107,117,127,137,147,157,167,177,187,197,207,217,227,237,247}, {},
    {9,19,29,39,49,59,69,79,89,99,109,119,129,139,149,159,169,179,189,199,209}, {}, {},
    {2,12,22,32,42,52,62,72,82,92,102,112,122,132,142,152,162,172,182,192,202,212,222,232,242,252},
    {}, {4,14,24,34,44,54,64,74,84,94,104,114,124,134,144,154,164,174,184,194,204}, {}, {},
    {7,17,27,37,47,57,67,77,87,97,107,117,127,137,147,157,167,177,187,197,207,217,227,237,247}, {},
    {9,19,29,39,49,59,69,79,89,99,109,119,129,139,149,159,169,179,189,199,209}, {}, {},
    {2,12,22,32,42,52,62,72,82,92,102,112,122,132,142,152,162,172,182,192,202,212,222,232,242,252},
    {}, {4,14,24,34,44,54,64,74,84,94,104,114,124,134,144,154,164,174,184,194,204}, {}, {},
    {7,17,27,37,47,57,67,77,87,97,107,117,127,137,147,157,167,177,187,197,207,217,227,237,247}, {},
    {9,19,29,39,49,59,69,79,89,99,109,119,129,139,149,159,169,179,189,199,209}, {}, {},
    {2,12,22,32,42,52,62,72,82,92,102,112,122,132,142,152,162,172,182,192,202,212,222,232,242,252},
    {}, {4,14,24,34,44,54,64,74,84,94,104,114,124,134,144,154,164,174,184,194,204}, {}, {},
    {7,17,27,37,47,57,67,77,87,97,107,117,127,137,147,157,167,177,187,197,207,217,227,237,247}, {},
    {9,19,29,39,49,59,69,79,89,99,109,119,129,139,149,159,169,179,189,199,209}, {}, {},
    {2,12,22,32,42,52,62,72,82,92,102,112,122,132,142,152,162,172,182,192,202,212,222,232,242,252},
    {}, {4,14,24,34,44,54,64,74,84,94,104,114,124,134,144,154,164,174,184,194,204}, {}, {},
    {7,17,27,37,47,57,67,77,87,97,107,117,127,137,147,157,167,177,187,197,207,217,227,237,247}, {},
    {9,19,29,39,49,59,69,79,89,99,109,119,129,139,149,159,169,179,189,199,209}, {}, {},
    {2,12,22,32,42,52,62,72,82,92,102,112,122,132,142,152,162,172,182,192,202,212,222,232,242,252},
    {}, {4,14,24,34,44,54,64,74,84,94,104,114,124,134,144,154,164,174,184,194,204}, {}, {},
    {7,17,27,37,47,57,67,77,87,97,107,117,127,137,147,157,167,177,187,197,207,217,227,237,247}, {},
    {9,19,29,39,49,59,69,79,89,99,109,119,129,139,149,159,169,179,189,199,209}, {}, {},
    {2,12,22,32,42,52,62,72,82,92,102,112,122,132,142,152,162,172,182,192,202,212,222,232,242,252},
    {}, {4,14,24,34,44,54,64,74,84,94,104,114,124,134,144,154,164,174,184,194,204}, {}
  >>

FloorBelow40 ==
  <<
    {}, {}, {}, {}, {}, {}, {1}, {}, {}, {}, {}, {}, {2}, {}, {}, {}, {}, {}, {}, {}, {}, {}, {},
    {}, {4}, {}, {}, {}, {}, {}, {}, {1}, {}, {}, {}, {}, {1}, {}, {}, {}, {}, {1}, {}, {}, {}, {},
    {1}, {}, {3,8}, {}, {}, {1}, {}, {}, {}, {}, {}, {2,7}, {}, {}, {}, {}, {2,7}, {}, {}, {}, {},
    {2,7}, {}, {}, {}, {}, {2,7}, {}, {}, {}, {}, {2,7}, {}, {}, {}, {}, {2,7}, {}, {}, {}, {},
    {2,7}, {}, {}, {}, {}, {2,7}, {}, {}, {}, {1,6,11,16}, {2,7}, {}, {}, {}, {1,6}, {2,7}, {}, {},
    {}, {1}, {}, {}, {4,9,14,19}, {}, {}, {}, {}, {4,9,14,19}, {}, {}, {}, {}, {4,9,14,19}, {}, {},
    {}, {}, {4,9,14,19}, {}, {}, {}, {}, {4,9,14,19}, {}, {}, {}, {}, {4,9,14,19}, {}, {}, {}, {},
    {4,9,14,19}, {}, {}, {}, {}, {4,9,14,19}, {}, {}, {}, {}, {4,9,14,19}, {}, {}, {}, {},
    {4,9,14,19}, {}, {}, {}, {}, {4,9,14,19}, {}, {}, {}, {}, {4,9,14,19}, {}, {}, {}, {},
    {4,9,14,19}, {}, {}, {}, {}, {4,9,14,19}, {}, {}, {}, {}, {4,9,14,19}, {}, {}, {}, {},
    {4,9,14,19}, {}, {}, {}, {}, {4,9,14,19}, {}, {}, {2,7,12,17,22,27,32}, {}, {4,9,14,19}, {},
    {}, {2,7,12,17,22}, {}, {4,9,14,19}, {}, {}, {2,7,12,17}, {}, {4,9,14}, {}, {}, {2,7}, {}, {4},
    {}, {}, {2}, {}, {}, {}, {}, {}, {3,8,13,18,23,28,33,38,43}, {}, {}, {}, {},
    {3,8,13,18,23,28,33,38,43}, {}, {}, {}, {}, {3,8,13,18,23,28,33,38,43}, {}, {}, {}, {},
    {3,8,13,18,23,28,33,38,43}, {}, {}, {}, {}, {3,8,13,18,23,28,33,38,43}, {}, {}, {}, {},
    {3,8,13,18,23,28,33,38,43}, {}, {}, {}, {}, {3,8,13,18,23,28,33,38,43}, {}, {}, {}, {},
    {3,8,13,18,23,28,33,38,43}, {}, {}
  >>

\* Whether the double result is one below the exact quotient
FloorBelow(currentByte, newByte, k) ==
  CASE k = 1  -> newByte \in FloorBelow1[currentByte + 1]
    [] k = 30 -> newByte \in FloorBelow30[currentByte + 1]
    [] k = 40 -> newByte \in FloorBelow40[currentByte + 1]
    [] OTHER  -> FALSE

\* Math.max(0.01, Math.min(1.0, strength))
EffectiveStrength(strength) == Max(MinStrength, Min(MaxStrength, strength))

\* A blend rounded to nearest, as Math.round would
RoundBlend(currentByte, newByte, k) ==
  (2 * (currentByte * (100 - k) + newByte * k) + 100) \div 200

\* Math.floor(currentByte * (1 - s) + newByte * s)
FloorBlend(currentByte, newByte, k) ==
  ((currentByte * (100 - k) + newByte * k) \div 100)
    - (IF FloorBelow(currentByte, newByte, k) THEN 1 ELSE 0)

\* A blend that adds the weighted new byte to the whole current byte, unmasked
MixByteUnmasked(currentByte, newByte, k) == currentByte + (newByte * k) \div 100

\* ... & 0xFF
MixByte(currentByte, newByte, k) == FloorBlend(currentByte, newByte, k) % 256

\* poolPos = (this.position + i) % this.pool.length
PoolPos(P, i) == (P.position + i) % P.size

\* The i with PoolPos(P, i) = p.  A pool holds at least HashLen bytes, so a
\* position is written at most once per addEntropy, by i = Offset(P, p),
\* when that is below hash.length.
\* A loop index that ignores the cursor
OffsetNoCursor(P, p) == p

Offset(P, p) == (p + P.size - P.position) % P.size

\* this.position = (this.position + hash.length) % this.pool.length
\* A cursor that advances without wrapping
NextPositionNoWrap(P) == P.position + HashLen

NextPosition(P) == (P.position + HashLen) % P.size

\* The body of addEntropy on pool Q with digest h and effective strength k
MixInto(Q, h, k, t) ==
  [ size        |-> Q.size,
    pool        |-> [p \in 0..(Q.size - 1) |->
                       IF Offset(Q, p) < HashLen
                         THEN MixByte(Q.pool[p], h[Offset(Q, p)], k)
                         ELSE Q.pool[p]],
    position    |-> NextPosition(Q),
    lastUpdate  |-> t,
    initialized |-> TRUE ]

\* addEntropy(data, strength) at time t, where hash = sha512(data).
\* (Written over singleton sets so that P and hash are evaluated once.)
AddEntropy(P, hash, strength, t) ==
  CHOOSE R \in { MixInto(Q, h, EffectiveStrength(strength), t) :
                   Q \in {P}, h \in {hash} } : TRUE

----------------------------------------------------------------------------
(* The pool as one value, and digests *)

ThePool ==
  [ size |-> size, pool |-> pool, position |-> position,
    lastUpdate |-> lastUpdate, initialized |-> initialized ]

SetPool(P) ==
  /\ size' = P.size
  /\ pool' = P.pool
  /\ position' = P.position
  /\ lastUpdate' = P.lastUpdate
  /\ initialized' = P.initialized

\* crypto.createHash('sha512').update(data).digest(): 64 arbitrary bytes.
\* The family: the constant digest 0xFF.., the digest equal to the bytes it
\* is mixed into, and the digests 4 and 5 above them.
ShaKinds == {"ff", "same", "plus4", "plus5"}

Sha512(kind, P) ==
  [i \in 0..(HashLen - 1) |->
     CASE kind = "ff"    -> 255
       [] kind = "same"  -> P.pool[PoolPos(P, i)]
       [] kind = "plus4" -> Min(255, P.pool[PoolPos(P, i)] + 4)
       [] kind = "plus5" -> Min(255, P.pool[PoolPos(P, i)] + 5)]

\* collectTimingEntropy(iterations): one addEntropy(timings, 0.3)
CollectTimingEntropy(P, t) ==
  CHOOSE R \in { AddEntropy(Q, Sha512(sha, Q), TimingStrength, t) :
                   Q \in {P} } : TRUE

\* collectSystemEntropy(): one addEntropy(buffer.subarray(0, offset), 0.4)
CollectSystemEntropy(P, t) ==
  CHOOSE R \in { AddEntropy(Q, Sha512(sha, Q), SystemStrength, t) :
                   Q \in {P} } : TRUE

\* collectTimingEntropy(); collectSystemEntropy();
Refresh(P, t) == CollectSystemEntropy(CollectTimingEntropy(P, t), t)

----------------------------------------------------------------------------
(* getRandomBytes *)

\* The output of the HMAC-SHA512 PRF, truncated to n bytes: arbitrary bytes,
\* drawn from 0x01 00.., 0x80 00.. and 0xFF.. for the sizes secureRandomInt
\* asks for (read as a little-endian 32-bit value these leave the residues
\* 1, 2 and 0 modulo 3; read big-endian, the last two have the top bit set),
\* and from 0x01 00.. and 0xFF.. for larger sizes.
NoBytes == [i \in {} |-> 0]

OutSet(n) ==
  IF n = 0 THEN { NoBytes }
  ELSE { [i \in 0..(n - 1) |-> IF i = 0 THEN 1 ELSE 0],
         [i \in 0..(n - 1) |-> 255] }
       \cup (IF n <= 4 THEN { [i \in 0..(n - 1) |-> IF i = 0 THEN 128 ELSE 0] }
             ELSE {})

\* The PRF is a function of (pool content, size): the same pool and size as
\* in its most recent evaluation give the same output, another pool a
\* different one.
PrfSet(P, n) ==
  IF n = 0 \/ ~memo.valid \/ memo.n # n THEN OutSet(n)
  ELSE IF memo.pool = P.pool THEN {memo.out}
  ELSE OutSet(n) \ {memo.out}

\* A stale check that is not strict
StaleAtInterval(P, t) == t - P.lastUpdate >= UpdateInterval

\* now - this.lastUpdate > this.updateInterval
Stale(P, t) == t - P.lastUpdate > UpdateInterval

\* The pool when the key is derived: refreshed first when stale
KeyPool(P, t) == IF Stale(P, t) THEN Refresh(P, t) ELSE P

\* The generation loop: round r runs hmac.update then hmac.digest on the one
\* Hmac object.  digest() finalizes it, so the update of a second round
\* throws ERR_CRYPTO_HASH_FINALIZED.  A round copies min(64, size - generated)
\* bytes, so a second round is needed exactly when size > 64.
Rounds(n) == (n + HashLen - 1) \div HashLen

HmacThrows(n) == Rounds(n) > 1

\* Two feedback mixes instead of one
FeedbackTwice(K, t) ==
  AddEntropy(AddEntropy(K, Sha512(sha, K), FeedbackStrength, t),
             Sha512(sha, K), FeedbackStrength, t)

\* this.addEntropy(result, 0.2)
Feedback(K, t) == AddEntropy(K, Sha512(sha, K), FeedbackStrength, t)

\* Whether every byte of digest h lies 0..4 above the pool byte it is mixed
\* into
Near(K, h) ==
  \A i \in 0..(HashLen - 1) :
    /\ K.pool[PoolPos(K, i)] <= h[i]
    /\ h[i] <= K.pool[PoolPos(K, i)] + 4

NoExt ==
  [ n |-> 0, threw |-> FALSE, refreshed |-> FALSE, out |-> NoBytes,
    near |-> FALSE ]

\* getRandomBytes(size) called directly on the pool
GetSizes == {1, 4, 16, 32, 64, 65, 256}

\* One more operation may run
CanStep == nops < MaxOps /\ pc = "idle"

\* One more dice operation may run
CanStepDice == nops < MaxDiceOps /\ pc = "idle"

Step(name) ==
  /\ nops' = nops + 1
  /\ op' = name
  /\ opPrev' = op

\* getRandomBytes(n) on pool P at time t, returning out, where K is the pool
\* the key is derived from, F the pool after the feedback and nr whether the
\* feedback digest is near the bytes it is mixed into: the pool, the
\* call record and the PRF memo it leaves.  When the generation loop throws,
\* the refresh has happened and the feedback has not.
GetRandomBytesFrom(P, n, t, K, F, nr, out) ==
  /\ SetPool(IF HmacThrows(n) THEN K ELSE F)
  /\ lastStrength' = IF ~HmacThrows(n) THEN FeedbackStrength
                 ELSE IF Stale(P, t) THEN SystemStrength ELSE lastStrength
  /\ ext' = [ n |-> n, threw |-> HmacThrows(n), refreshed |-> Stale(P, t),
              out |-> IF HmacThrows(n) THEN NoBytes ELSE out,
              near |-> ~HmacThrows(n) /\ nr ]
  /\ extPrev' = ext
  /\ memo' = IF HmacThrows(n) \/ n = 0 THEN memo
             ELSE [valid |-> TRUE, n |-> n, pool |-> K.pool, out |-> out]

GetRandomBytes ==
  /\ CanStep
  /\ \E K \in {KeyPool(ThePool, now)} :
       \E F \in {Feedback(K, now)}, nr \in {Near(K, Sha512(sha, K))} :
         \E n \in GetSizes :
           \E out \in IF HmacThrows(n) THEN {NoBytes} ELSE PrfSet(K, n) :
             /\ Step("getRandomBytes")
             /\ GetRandomBytesFrom(ThePool, n, now, K, F, nr, out)
             /\ UNCHANGED <<proc, now, timers, hasRandomInt, build, sha, call, pc>>

----------------------------------------------------------------------------
(* The other pool operations *)

\* addEntropy(data, strength) called directly; strength in hundredths,
\* below, inside and above [0.01, 1.0]
Strengths == {0, DefaultStrength, 250}

AddEntropyCall ==
  /\ CanStep
  /\ \E s \in Strengths :
       /\ Step("addEntropy")
       /\ SetPool(AddEntropy(ThePool, Sha512(sha, ThePool), s, now))
       /\ lastStrength' = s
       /\ UNCHANGED <<proc, now, timers, hasRandomInt, build, sha, ext, extPrev, memo,
                      call, pc>>

CollectTimingEntropyCall ==
  /\ CanStep
  /\ Step("collectTimingEntropy")
  /\ SetPool(CollectTimingEntropy(ThePool, now))
  /\ lastStrength' = TimingStrength
  /\ UNCHANGED <<proc, now, timers, hasRandomInt, build, sha, ext, extPrev, memo,
                    call, pc>>

CollectSystemEntropyCall ==
  /\ CanStep
  /\ Step("collectSystemEntropy")
  /\ SetPool(CollectSystemEntropy(ThePool, now))
  /\ lastStrength' = SystemStrength
  /\ UNCHANGED <<proc, now, timers, hasRandomInt, build, sha, ext, extPrev, memo,
                    call, pc>>

\* A delay without the base interval
DelayJitterOnly(jitter) == jitter

\* delay = this.updateInterval + Math.random() * 10000
Delay(jitter) == UpdateInterval + jitter

\* The setTimeout callback of scheduleNextCollection: it runs once its delay
\* has passed, collects, and schedules the next run.
PeriodicCollection ==
  /\ CanStep
  /\ timers # <<>>
  /\ Head(timers) <= now
  /\ \E jitter \in JitterSet :
       /\ Step("periodicCollection")
       /\ SetPool(Refresh(ThePool, now))
       /\ lastStrength' = SystemStrength
       /\ timers' = Append(Tail(timers), now + Delay(jitter))
       /\ UNCHANGED <<proc, now, hasRandomInt, build, sha, ext, extPrev, memo, call, pc>>

\* The same callback in a run without end.  The program compares times
\* only by their differences, so the clock is read from the latest run on:
\* the run leaves now = 0 and the next run due at its delay.
ScheduledCollection ==
  /\ pc = "idle"
  /\ timers # <<>>
  /\ Head(timers) <= now
  /\ \E jitter \in JitterSet :
       /\ op' = "periodicCollection"
       /\ opPrev' = op
       /\ \E R \in {Refresh(ThePool, now)} :
            SetPool([R EXCEPT !.lastUpdate = 0])
       /\ lastStrength' = SystemStrength
       /\ now' = 0
       /\ timers' = Append(Tail(timers), Delay(jitter))
       /\ UNCHANGED <<proc, hasRandomInt, build, sha, ext, extPrev, memo, call, pc,
                      nops>>

\* The event loop idles until the interval has passed or the timer is due
WaitForTimer ==
  /\ timers # <<>>
  /\ now < Head(timers)
  /\ \E t \in {UpdateInterval, Head(timers)} :
       /\ now < t
       /\ now' = t
  /\ UNCHANGED <<proc, size, pool, position, lastUpdate, initialized, timers,
                 hasRandomInt, build, sha, op, opPrev, ext, extPrev, memo,
                 call, pc, nops, lastStrength>>

\* Time passes
Tick ==
  \E d \in TickSteps :
    /\ now + d <= MaxNow
    /\ now' = now + d
    /\ UNCHANGED <<proc, size, pool, position, lastUpdate, initialized, timers,
                   hasRandomInt, build, sha, op, opPrev, ext, extPrev, memo,
                   call, pc, nops, lastStrength>>

----------------------------------------------------------------------------
(* secureRandomInt *)

\* The smallest range that takes 4 bytes on the fallback path
BigSides == 2^24 + 1

\* entropyBytes.readUInt32LE(0) % m.  The 32-bit unsigned value is
\* b0 + 256 b1 + 256^2 b2 + 256^3 b3; its residue is taken byte by byte.
ReadUInt32LEMod(bytes, m) ==
  ((((((bytes[3] % m) * 256 + bytes[2]) % m) * 256 + bytes[1]) % m) * 256
     + bytes[0]) % m

\* An offset that is not shifted down by one
ModifierUnshifted(bytes) == ReadUInt32LEMod(bytes, 3)

\* const modifier = entropyValue % 3 - 1
Modifier(bytes) == ReadUInt32LEMod(bytes, 3) - 1

\* A bounds handling that forgets the upper wrap
StrongResultLowerWrapOnly(cryptoRandom, modifier, min, max) ==
  IF cryptoRandom + modifier < min THEN max ELSE cryptoRandom + modifier

\* let result = cryptoRandom + modifier;
\* if (result < min) result = max; if (result > max) result = min;
StrongResult(cryptoRandom, modifier, min, max) ==
  LET r0 == cryptoRandom + modifier
      r1 == IF r0 < min THEN max ELSE r0
  IN  IF r1 > max THEN min ELSE r1

\* A byte count rounded down instead of up
ByteCountFloor(range) ==
  IF range < 256 THEN 0 ELSE IF range < 65536 THEN 1
  ELSE IF range < 16777216 THEN 2 ELSE 3

\* Math.ceil(Math.log2(range) / 8): the least k with 256^k >= range
RECURSIVE ByteCount(_)
ByteCount(range) ==
  IF range <= 1 THEN 0 ELSE 1 + ByteCount((range + 255) \div 256)

\* value << 8 on a 32-bit signed integer
ShiftLeft8(value) ==
  LET low == value % 16777216
  IN  IF low >= 8388608 THEN (low - 16777216) * 256 ELSE low * 256

\* for (i < byteCount) value = (value << 8) | randomBytes[i], after i rounds.
\* The shifted value ends in eight zero bits, so the OR adds the byte.
RECURSIVE AssembleBE(_, _)
AssembleBE(bytes, i) ==
  IF i = 0 THEN 0 ELSE ShiftLeft8(AssembleBE(bytes, i - 1)) + bytes[i - 1]

\* value % range in JavaScript: the remainder takes the sign of the dividend
JsRem(value, range) ==
  IF value >= 0 THEN value % range
  ELSE IF value % range = 0 THEN 0 ELSE (value % range) - range

\* return min + (value % range)
FallbackResult(bytes, min, max) ==
  LET range == max - min + 1
  IN  min + JsRem(AssembleBE(bytes, ByteCount(range)), range)

\* The number of pool bytes secureRandomInt(min, max) asks for
BytesAsked(strong, min, max) == IF strong THEN 4 ELSE ByteCount(max - min + 1)

\* secureRandomInt(min, max), given crypto.randomInt's value and the pool bytes
SecureRandomInt(strong, min, max, cryptoRandom, bytes) ==
  IF strong THEN StrongResult(cryptoRandom, Modifier(bytes), min, max)
  ELSE FallbackResult(bytes, min, max)

\* crypto.randomInt(min, max + 1): every value of a small range, the ends of
\* a large one
SmallRange == 8

CryptoRandomSet(min, max) ==
  IF max - min < SmallRange THEN min..max ELSE {min, min + 1, max - 1, max}

\* The (min, max) that secureRandomInt is called with
IntRanges ==
  { <<1, 1>>, <<0, 2>>, <<1, 2>>, <<1, 6>>, <<1, 8>>, <<-3, 3>>, <<1, 256>>,
    <<1, 257>>, <<1, BigSides>>, <<0, 2^25 - 1>> }

\* The pool and PRF memo after an inner getRandomBytes(n) that derived its
\* key from K, returned out and left the pool F
InnerGet(K, F, n, out) ==
  /\ SetPool(F)
  /\ lastStrength' = FeedbackStrength
  /\ memo' = IF n = 0 THEN memo
             ELSE [valid |-> TRUE, n |-> n, pool |-> K.pool, out |-> out]

NoCfg ==
  [type |-> "none", count |-> 0, sides |-> 0, hasModifier |-> FALSE, modifier |-> 0]

NoCall ==
  [ fn |-> "none", threw |-> "none", done |-> FALSE,
    min |-> 0, max |-> 0, strong |-> 0, bytes |-> NoBytes, result |-> 0,
    cfg |-> NoCfg, rolls |-> <<>>, total |-> 0, original |-> <<>>,
    input |-> <<>>, tool |-> FALSE, structured |-> <<>>,
    readings |-> <<>>, snapshot |-> <<>>,
    owner |-> "none", todo |-> <<>>, i |-> 0, k |-> 0, hash |-> NoBytes,
    before |-> NoBytes, start |-> 0,
    n |-> 0, generated |-> 0, rounds |-> 0, iter |-> 0,
    fractional |-> "none" ]

SecureRandomIntCall ==
  /\ CanStepDice
  /\ \E K \in {KeyPool(ThePool, now)} :
       \E F \in {Feedback(K, now)}, mm \in IntRanges :
         \E c \in IF hasRandomInt THEN CryptoRandomSet(mm[1], mm[2]) ELSE {0} :
           \E out \in PrfSet(K, BytesAsked(hasRandomInt, mm[1], mm[2])) :
             /\ Step("secureRandomInt")
             /\ InnerGet(K, F, BytesAsked(hasRandomInt, mm[1], mm[2]), out)
             /\ call' = [NoCall EXCEPT
                           !.fn = "secureRandomInt", !.done = TRUE,
                           !.min = mm[1], !.max = mm[2], !.strong = c,
                           !.bytes = out,
                           !.result = SecureRandomInt(hasRandomInt, mm[1], mm[2],
                                                      c, out)]
             /\ UNCHANGED <<proc, now, timers, hasRandomInt, build, sha, ext, extPrev, pc>>

----------------------------------------------------------------------------
(* secureRandomInt, the variant with rejection sampling.                    *)
(* maxValue = 2 ** (byteCount * 8) reaches 2^32, so the cutoff is held as    *)
(* <<hi, lo>>, standing for hi * 256 + lo.                                   *)

MaxDraws == 2       \* draws of the do-while loop per call

\* 2^e % m, by doubling
RECURSIVE TwoPowMod(_, _)
TwoPowMod(e, m) == IF e = 0 THEN 1 % m ELSE (2 * TwoPowMod(e - 1, m)) % m

\* const cutoff = maxValue - (maxValue % range)
Cutoff(byteCount, range) ==
  LET r == TwoPowMod(8 * byteCount, range)
  IN  IF byteCount = 0 THEN <<0, 1 - r>>
      ELSE IF r = 0 THEN <<256 ^ (byteCount - 1), 0>>
      ELSE <<256 ^ (byteCount - 1) - 1 - ((r - 1) \div 256),
             255 - ((r - 1) % 256)>>

\* value >= cutoff
AtLeast(value, cutoff) ==
  \/ value \div 256 > cutoff[1]
  \/ value \div 256 = cutoff[1] /\ value % 256 >= cutoff[2]

\* crypto.randomBytes(byteCount): every byte for one byte, and for more the
\* strings 01 00.., 80 00.., FF..FF, FF..FE
DrawSet(n) ==
  IF n = 0 THEN { NoBytes }
  ELSE IF n = 1 THEN { [i \in 0..0 |-> b] : b \in Byte }
  ELSE { [i \in 0..(n - 1) |-> IF i = 0 THEN 1 ELSE 0],
         [i \in 0..(n - 1) |-> IF i = 0 THEN 128 ELSE 0],
         [i \in 0..(n - 1) |-> 255],
         [i \in 0..(n - 1) |-> IF i = n - 1 THEN 254 ELSE 255] }

\* secureRandomInt(min, max) of the variant: crypto.randomInt when there is
\* one; else one draw of the do-while loop, which either is rejected and
\* drawn again or gives the result
RejectionDraw ==
  /\ pc = "sampling"
  /\ call.rounds < MaxDraws
  /\ LET range == call.max - call.min + 1
         byteCount == ByteCount(range)
     IN  IF hasRandomInt
         THEN \E c \in CryptoRandomSet(call.min, call.max) :
                /\ call' = [call EXCEPT !.fn = "secureRandomInt",
                                        !.done = TRUE, !.strong = c,
                                        !.result = c]
                /\ pc' = "idle"
         ELSE \E buffer \in DrawSet(byteCount) :
                LET value == AssembleBE(buffer, byteCount)
                IN  IF AtLeast(value, Cutoff(byteCount, range))
                    THEN /\ call' = [call EXCEPT !.rounds = @ + 1,
                                                 !.bytes = buffer]
                         /\ pc' = pc
                    ELSE /\ call' = [call EXCEPT
                                       !.fn = "secureRandomInt",
                                       !.done = TRUE,
                                       !.rounds = @ + 1,
                                       !.bytes = buffer,
                                       !.result = call.min + JsRem(value, range)]
                         /\ pc' = "idle"
  /\ op' = "secureRandomInt"
  /\ opPrev' = op
  /\ UNCHANGED <<proc, size, pool, position, lastUpdate, initialized, now, timers,
                 hasRandomInt, build, sha, ext, extPrev, memo, nops,
                 lastStrength>>

----------------------------------------------------------------------------
(* rollDice *)

\* A schema that does not check the count
DiceRollSchemaNoCount(cfg) ==
  /\ cfg.type \in {"standard", "fate"}
  /\ cfg.sides > 0

\* diceRollSchema.parse: type is "standard" or "fate", count an integer >= 0,
\* sides an integer > 0, modifier an integer or absent
DiceRollSchemaOk(cfg) ==
  /\ cfg.type \in {"standard", "fate"}
  /\ cfg.count >= 0
  /\ cfg.sides > 0

\* rollSingleDie(sides) = secureRandomInt(1, sides)
RollSingleDie(strong, sides, cryptoRandom, bytes) ==
  SecureRandomInt(strong, 1, sides, cryptoRandom, bytes)

\* rollFateDie() = secureRandomInt(0, 2) - 1
RollFateDie(strong, cryptoRandom, bytes) ==
  SecureRandomInt(strong, 0, 2, cryptoRandom, bytes) - 1

\* The bounds of the die a configuration rolls
DieMin(cfg) == IF cfg.type = "fate" THEN 0 ELSE 1
DieMax(cfg) == IF cfg.type = "fate" THEN 2 ELSE cfg.sides

\* diceRoll.type === "fate" ? rollFateDie() : rollSingleDie(diceRoll.sides)
RollOne(strong, cfg, cryptoRandom, bytes) ==
  IF cfg.type = "fate" THEN RollFateDie(strong, cryptoRandom, bytes)
  ELSE RollSingleDie(strong, cfg.sides, cryptoRandom, bytes)

RECURSIVE Sum(_)
Sum(rolls) == IF rolls = <<>> THEN 0 ELSE Head(rolls) + Sum(Tail(rolls))

\* A total that leaves the modifier out
TotalNoModifier(rolls, cfg) == Sum(rolls)

\* rolls.reduce((sum, roll) => sum + roll, 0) + (diceRoll.modifier || 0)
Total(rolls, cfg) == Sum(rolls) + (IF cfg.hasModifier THEN cfg.modifier ELSE 0)

\* Decimal digits of n >= 0, as characters
Digit(d) == <<"0", "1", "2", "3", "4", "5", "6", "7", "8", "9">>[d + 1]

RECURSIVE Digits(_)
Digits(n) == IF n < 10 THEN <<Digit(n)>> ELSE Append(Digits(n \div 10), Digit(n % 10))

\* Number.prototype.toString of an integer
NumToString(n) == IF n < 0 THEN <<"-">> \o Digits(-n) ELSE Digits(n)

\* formatDiceNotation: `${count}d${sides}${modifier}`
FormatDiceNotation(cfg) ==
  (IF cfg.count = 1 THEN <<>> ELSE NumToString(cfg.count))
  \o <<"d">>
  \o (IF cfg.type = "fate" THEN <<"F">> ELSE NumToString(cfg.sides))
  \o (IF cfg.hasModifier /\ cfg.modifier # 0
        THEN (IF cfg.modifier >= 0 THEN <<"+">> \o NumToString(cfg.modifier)
              ELSE NumToString(cfg.modifier))
        ELSE <<>>)

\* The configurations rollDice is called with: valid ones and ones the
\* schema rejects
DiceTypes == {"standard", "fate", "other"}
DiceSides == {0, 6, BigSides}
Modifiers == {-2}

Configs ==
  { [type |-> ty, count |-> c, sides |-> s, hasModifier |-> TRUE, modifier |-> m] :
      ty \in DiceTypes, c \in -1..MaxCount, s \in DiceSides, m \in Modifiers }
  \cup
  { [type |-> ty, count |-> c, sides |-> s, hasModifier |-> FALSE, modifier |-> 0] :
      ty \in DiceTypes, c \in -1..MaxCount, s \in DiceSides }

\* rollResultSchema, as the outputSchema of the dice_roll tool: the fields a
\* structured output must have
OutputSchemaKeys == {"rolls", "total", "original"}

\* The dice_roll tool handler: structuredContent: { rollResult: rollDice(diceRoll) }
StructuredContent(rollResult) == [rollResult |-> rollResult]

\* rollDice, called directly or by the dice_roll tool handler, up to its
\* loop: the input validation
\* The numbers of the model are integers; a configuration may be given
\* with a fractional part in its count or its modifier, which
\* z.number().int() rejects
Fractional == {"none", "count", "modifier"}

RollDiceBegin ==
  /\ CanStepDice
  /\ \E cfg \in Configs, tool \in BOOLEAN, frac \in Fractional :
       /\ Step("rollDice")
       /\ IF DiceRollSchemaOk(cfg) /\ frac = "none"
            THEN /\ call' = [NoCall EXCEPT !.fn = "rollDice", !.cfg = cfg,
                                           !.tool = tool]
                 /\ pc' = "rolling"
            ELSE /\ call' = [NoCall EXCEPT !.fn = "rollDice", !.cfg = cfg,
                                           !.tool = tool, !.fractional = frac,
                                           !.threw = "ZodError", !.done = TRUE]
                 /\ pc' = "idle"
       /\ UNCHANGED <<proc, size, pool, position, lastUpdate, initialized, now, timers,
                      hasRandomInt, build, sha, ext, extPrev, memo,
                      lastStrength>>

\* One round of the loop: roll one die and push it
RollDie ==
  /\ pc = "rolling"
  /\ Len(call.rolls) < call.cfg.count
  /\ \E K \in {KeyPool(ThePool, now)} :
       \E F \in {Feedback(K, now)},
          c \in IF hasRandomInt THEN {DieMin(call.cfg), DieMax(call.cfg)} ELSE {0} :
         \E out \in PrfSet(K, BytesAsked(hasRandomInt, DieMin(call.cfg),
                                         DieMax(call.cfg))) :
           /\ InnerGet(K, F, BytesAsked(hasRandomInt, DieMin(call.cfg),
                                        DieMax(call.cfg)), out)
           /\ call' = [call EXCEPT
                         !.rolls = Append(@, RollOne(hasRandomInt, call.cfg, c, out)),
                         !.strong = c, !.bytes = out]
           /\ UNCHANGED <<proc, now, timers, hasRandomInt, build, sha, op, opPrev,
                          ext, extPrev, pc, nops>>

\* After the loop: total, original, output validation, return; the tool
\* handler then wraps the result
RollDiceEnd ==
  /\ pc = "rolling"
  /\ Len(call.rolls) = call.cfg.count
  /\ call' = [call EXCEPT
                !.total = Total(call.rolls, call.cfg),
                !.original = FormatDiceNotation(call.cfg),
                !.done = TRUE,
                !.structured =
                  IF call.tool
                    THEN StructuredContent(
                           [rolls |-> call.rolls,
                            total |-> Total(call.rolls, call.cfg),
                            original |-> FormatDiceNotation(call.cfg)])
                    ELSE <<>>]
  /\ pc' = "idle"
  /\ UNCHANGED <<proc, size, pool, position, lastUpdate, initialized, now, timers,
                 hasRandomInt, build, sha, op, opPrev, ext, extPrev, memo, nops,
                 lastStrength>>

----------------------------------------------------------------------------
(* parseDiceNotation *)

\* The characters notations are written with here
Chars == {"0", "2", "d", "D", "F", "+", "-", " "}

Notations == UNION { [1..n -> Chars] : n \in 0..MaxLen }

DigitChars == {"0", "1", "2", "3", "4", "5", "6", "7", "8", "9"}

DigitValue(c) == CHOOSE d \in 0..9 : Digit(d) = c

\* notation.replace(/\s+/g, "")
StripWhitespace(s) == SelectSeq(s, LAMBDA c : c # " ")

\* toLowerCase()
LowerChar(c) == CASE c = "D" -> "d" [] c = "F" -> "f" [] OTHER -> c

ToLowerCase(s) == [i \in 1..Len(s) |-> LowerChar(s[i])]

\* \d+ (or [0-9]+) at index i: the number of digits it consumes
RECURSIVE DigitRun(_, _)
DigitRun(s, i) ==
  IF i <= Len(s) /\ s[i] \in DigitChars THEN 1 + DigitRun(s, i + 1) ELSE 0

\* Number.parseInt(str, 10) of an optional sign and digits
RECURSIVE ParseDigits(_)
ParseDigits(str) ==
  IF str = <<>> THEN 0
  ELSE 10 * ParseDigits(SubSeq(str, 1, Len(str) - 1)) + DigitValue(str[Len(str)])

\* A parseInt that drops the sign
ParseIntUnsigned(str) ==
  IF Head(str) \in {"+", "-"} THEN ParseDigits(Tail(str)) ELSE ParseDigits(str)

ParseInt(str) ==
  IF Head(str) = "-" THEN 0 - ParseDigits(Tail(str))
  ELSE IF Head(str) = "+" THEN ParseDigits(Tail(str))
  ELSE ParseDigits(str)

NoMatch == [ok |-> FALSE, countStr |-> <<>>, sidesStr |-> <<>>, modifierStr |-> <<>>]

\* notation.match(/^(\d+)?d([0-9]+|f)([+-]\d+)?$/i): the three groups, an
\* unmatched optional group being <<>>
Match(s) ==
  LET c == DigitRun(s, 1)
      sidesAt == c + 2
      sidesLen == IF sidesAt <= Len(s) /\ s[sidesAt] = "f" THEN 1
                  ELSE DigitRun(s, sidesAt)
      modAt == sidesAt + sidesLen
      modLen == IF modAt <= Len(s) /\ s[modAt] \in {"+", "-"}
                  THEN 1 + DigitRun(s, modAt + 1) ELSE 0
  IN  IF /\ c + 1 <= Len(s)
         /\ s[c + 1] = "d"
         /\ sidesLen >= 1
         /\ modLen # 1
         /\ modAt + modLen = Len(s) + 1
        THEN [ok |-> TRUE, countStr |-> SubSeq(s, 1, c),
              sidesStr |-> SubSeq(s, sidesAt, modAt - 1),
              modifierStr |-> SubSeq(s, modAt, Len(s))]
        ELSE NoMatch

\* The diceRoll object built from the groups
DiceRollOf(m) ==
  LET isFate == ToLowerCase(m.sidesStr) = <<"f">>
  IN  [ type |-> IF isFate THEN "fate" ELSE "standard",
        count |-> IF m.countStr # <<>> THEN ParseInt(m.countStr) ELSE 1,
        sides |-> IF isFate THEN FateSides ELSE ParseInt(m.sidesStr),
        hasModifier |-> m.modifierStr # <<>>,
        modifier |-> IF m.modifierStr # <<>> THEN ParseInt(m.modifierStr) ELSE 0 ]

\* What the catch block does with the ZodError of a rejected configuration:
\* it reads error.errors.map(...).  The TypeScript sources import "zod",
\* whose ZodError has .errors; lib/dice.js imports "zod/v4", whose ZodError
\* has .issues and no .errors, so the read throws a TypeError.
CatchZodError(b) == IF b = "lib" THEN "TypeError" ELSE "DiceRollError"

\* parseDiceNotation(notation) in build b: what it throws and what it returns
ParseDiceNotation(b, notation) ==
  LET m == Match(ToLowerCase(StripWhitespace(notation)))
  IN  IF ~m.ok THEN [threw |-> "DiceRollError", cfg |-> NoCfg]
      ELSE IF DiceRollSchemaOk(DiceRollOf(m))
             THEN [threw |-> "none", cfg |-> DiceRollOf(m)]
             ELSE [threw |-> CatchZodError(b), cfg |-> NoCfg]

Builds == {"ts", "lib"}

ParseDiceNotationCall ==
  /\ pc = "parse"
  /\ \E r \in {ParseDiceNotation(build, call.input)} :
       call' = [call EXCEPT !.fn = "parseDiceNotation", !.done = TRUE,
                            !.threw = r.threw, !.cfg = r.cfg]
  /\ pc' = "idle"
  /\ op' = "parseDiceNotation"
  /\ opPrev' = op
  /\ UNCHANGED <<proc, size, pool, position, lastUpdate, initialized, now, timers,
                 hasRandomInt, build, sha, ext, extPrev, memo, nops,
                 lastStrength>>

----------------------------------------------------------------------------
(* collectSystemEntropy: the unsigned 32-bit fields of the snapshot.        *)
(* A reading may exceed 32 bits; it is held as <<top, hi, lo>>, standing    *)
(* for top * 2^32 + hi * 2^16 + lo, and a stored field as <<hi, lo>>.       *)

Limb == 65536

\* value % BigInt(0xFFFFFFFF), value % 0xFFFFFFFF: the remainder modulo
\* 2^32 - 1.  As 2^32 = 0xFFFFFFFF + 1, top * 2^32 + b has the remainder of
\* top + b.
RECURSIVE Mod0xFFFFFFFF(_)
Mod0xFFFFFFFF(v) ==
  LET lo1 == v[3] + v[1]
      hi1 == v[2] + lo1 \div Limb
  IN  IF hi1 >= Limb
      THEN Mod0xFFFFFFFF(<<hi1 \div Limb, hi1 % Limb, lo1 % Limb>>)
      ELSE IF hi1 = Limb - 1 /\ lo1 % Limb = Limb - 1 THEN <<0, 0>>
      ELSE <<hi1, lo1 % Limb>>

\* process.pid & 0xFFFFFFFF, for a pid below 2^31
PidField(v) == <<v[2], v[3]>>

\* The fields reduced modulo 0xFFFFFFFF, in the order they are written
ReducedFields ==
  <<"hrtime", "rss", "heapTotal", "heapUsed", "totalMem", "freeMem", "uptime">>

\* Readings of a field: 65536, 2^32 - 2, 2^32 - 1, 2^33 (8 GiB)
Readings ==
  { <<0, 1, 0>>, <<0, Limb - 1, Limb - 2>>, <<0, Limb - 1, Limb - 1>>,
    <<2, 0, 0>> }

\* process.pid: 1, and the largest pid of Linux, 2^22
Pids == { <<0, 0, 1>>, <<0, 64, 0>> }

\* What the system reports when collectSystemEntropy runs
SystemReadings ==
  { [f \in {ReducedFields[j] : j \in 1..Len(ReducedFields)} \cup {"pid"} |->
       IF f = "pid" THEN p ELSE r[f]] :
      p \in Pids,
      r \in [{ReducedFields[j] : j \in 1..Len(ReducedFields)} -> Readings] }

\* The unsigned 32-bit fields written into the buffer
Snapshot(readings) ==
  [f \in DOMAIN readings |->
     IF f = "pid" THEN PidField(readings[f]) ELSE Mod0xFFFFFFFF(readings[f])]

\* collectSystemEntropy() with the readings held in call.readings
CollectSystemSnapshot ==
  /\ pc = "snapshot"
  /\ pc' = "idle"
  /\ Step("collectSystemEntropy")
  /\ SetPool(CollectSystemEntropy(ThePool, now))
  /\ lastStrength' = SystemStrength
  /\ call' = [call EXCEPT !.fn = "collectSystemEntropy", !.done = TRUE,
                          !.snapshot = Snapshot(call.readings)]
  /\ UNCHANGED <<proc, now, timers, hasRandomInt, build, sha, ext, extPrev, memo>>

----------------------------------------------------------------------------
(* The pool operations statement by statement.                              *)
(* A task is one run of JavaScript from an empty call stack: a roll's       *)
(* getRandomBytes(4), or the timer callback of scheduleNextCollection.      *)
(* call.owner is the task running, call.todo the stages it has left, and    *)
(* within addEntropy call.i is the loop index, call.hash the digest,        *)
(* call.before the pool and call.start the cursor the loop started from;    *)
(* call.iter counts the rounds of collectTimingEntropy, call.generated and  *)
(* call.rounds the bytes and the rounds of the generation loop.             *)

\* An event loop that would start a task while another is running
EventLoopAnyTime == TRUE

\* A new task starts only when the call stack is empty: nothing in the pool
\* awaits, so the task running is never suspended
EventLoopIdle == pc = "idle"

Stages == {"timing", "system", "key", "feedback"}

StrengthOf(stage) ==
  CASE stage = "timing"   -> TimingStrength
    [] stage = "system"   -> SystemStrength
    [] stage = "feedback" -> FeedbackStrength

\* collectTimingEntropy(iterations: number = 50)
TimingIterations == 50

\* getRandomBytes(size): 0 and 4 as secureRandomInt asks, 65 as a direct
\* caller of the exported pool may
StepSizes == {0, 4, 65}

\* getRandomBytes(n) entered: the stale check decides the stages
TaskGetRandomBytes ==
  /\ EventLoopIdle
  /\ nops < MaxOps
  /\ Step("getRandomBytes")
  /\ pc' = "run"
  /\ \E n \in StepSizes :
       /\ call' = [NoCall EXCEPT
                     !.owner = "roll",
                     !.n = n,
                     !.todo = IF Stale(ThePool, now)
                              THEN <<"timing", "system", "key", "feedback">>
                              ELSE <<"key", "feedback">>]
       /\ ext' = [NoExt EXCEPT !.n = n, !.refreshed = Stale(ThePool, now)]
  /\ extPrev' = ext
  /\ UNCHANGED <<proc, size, pool, position, lastUpdate, initialized, now, timers,
                 hasRandomInt, build, sha, memo, lastStrength>>

\* The timer callback entered: its timer has fired
TaskTimer ==
  /\ EventLoopIdle
  /\ nops < MaxOps
  /\ timers # <<>>
  /\ Head(timers) <= now
  /\ Step("periodicCollection")
  /\ pc' = "run"
  /\ call' = [NoCall EXCEPT !.owner = "timer", !.todo = <<"timing", "system">>]
  /\ timers' = Tail(timers)
  /\ UNCHANGED <<proc, size, pool, position, lastUpdate, initialized, now,
                 hasRandomInt, build, sha, ext, extPrev, memo, lastStrength>>

\* One round of the measuring loop of collectTimingEntropy
TimingRound ==
  /\ pc = "run"
  /\ call.todo # <<>>
  /\ Head(call.todo) = "timing"
  /\ call.iter < TimingIterations
  /\ call' = [call EXCEPT !.iter = @ + 1]
  /\ UNCHANGED <<proc, size, pool, position, lastUpdate, initialized, now, timers,
                 hasRandomInt, build, sha, op, opPrev, ext, extPrev, memo,
                 pc, nops, lastStrength>>

\* addEntropy entered: the strength is clamped and the digest computed
MixBegin ==
  /\ pc = "run"
  /\ call.todo # <<>>
  /\ Head(call.todo) \in {"timing", "system", "feedback"}
  /\ Head(call.todo) = "timing" => call.iter = TimingIterations
  /\ pc' = "mix"
  /\ call' = [call EXCEPT !.i = 0,
                          !.k = EffectiveStrength(StrengthOf(Head(call.todo))),
                          !.hash = Sha512(sha, ThePool),
                          !.before = pool,
                          !.start = position]
  /\ lastStrength' = StrengthOf(Head(call.todo))
  /\ UNCHANGED <<proc, size, pool, position, lastUpdate, initialized, now, timers,
                 hasRandomInt, build, sha, op, opPrev, ext, extPrev, memo,
                 nops>>

\* One iteration of the loop of addEntropy
MixWrite ==
  /\ pc = "mix"
  /\ call.i < HashLen
  /\ pool' = [pool EXCEPT ![(position + call.i) % size] =
                MixByte(@, call.hash[call.i], call.k)]
  /\ call' = [call EXCEPT !.i = @ + 1]
  /\ UNCHANGED <<proc, size, position, lastUpdate, initialized, now, timers,
                 hasRandomInt, build, sha, op, opPrev, ext, extPrev, memo,
                 pc, nops, lastStrength>>

\* The end of addEntropy: position, lastUpdate, initialized
MixEnd ==
  /\ pc = "mix"
  /\ call.i = HashLen
  /\ position' = (position + HashLen) % size
  /\ lastUpdate' = now
  /\ initialized' = TRUE
  /\ pc' = "run"
  /\ call' = [call EXCEPT !.todo = Tail(@), !.iter = 0]
  /\ UNCHANGED <<proc, size, pool, now, timers, hasRandomInt, build, sha, op,
                 opPrev, ext, extPrev, memo, nops, lastStrength>>

\* One round of the generation loop: hmac.update, hmac.digest, copy.  The
\* one Hmac object is finalized by the digest of the first round, so the
\* update of a second round throws and getRandomBytes is left.
GenerationRound ==
  /\ pc = "run"
  /\ call.todo # <<>>
  /\ Head(call.todo) = "key"
  /\ call.generated < call.n
  /\ IF call.rounds >= 1
     THEN /\ call' = [call EXCEPT !.rounds = @ + 1, !.todo = <<>>]
          /\ ext' = [ext EXCEPT !.threw = TRUE]
     ELSE /\ call' = [call EXCEPT
                        !.rounds = @ + 1,
                        !.generated = @ + Min(HashLen, call.n - @)]
          /\ ext' = ext
  /\ UNCHANGED <<proc, size, pool, position, lastUpdate, initialized, now, timers,
                 hasRandomInt, build, sha, op, opPrev, extPrev, memo, pc,
                 nops, lastStrength>>

\* The generation loop is left with the bytes asked for: they are a
\* function of the pool the seed was taken from
DeriveKey ==
  /\ pc = "run"
  /\ call.todo # <<>>
  /\ Head(call.todo) = "key"
  /\ call.generated >= call.n
  /\ \E out \in PrfSet(ThePool, call.n) :
       /\ ext' = [ext EXCEPT !.out = out]
       /\ memo' = IF call.n = 0 THEN memo
                  ELSE [valid |-> TRUE, n |-> call.n, pool |-> pool,
                        out |-> out]
  /\ call' = [call EXCEPT !.todo = Tail(@)]
  /\ UNCHANGED <<proc, size, pool, position, lastUpdate, initialized, now, timers,
                 hasRandomInt, build, sha, op, opPrev, extPrev, pc, nops,
                 lastStrength>>

\* The task returns to the event loop; the timer callback has scheduled the
\* next collection as its last statement
TaskEnd ==
  /\ pc = "run"
  /\ call.todo = <<>>
  /\ pc' = "idle"
  /\ call' = [call EXCEPT !.owner = "none"]
  /\ \E jitter \in JitterSet :
       timers' = IF call.owner = "timer"
                 THEN Append(timers, now + Delay(jitter))
                 ELSE timers
  /\ UNCHANGED <<proc, size, pool, position, lastUpdate, initialized, now,
                 hasRandomInt, build, sha, op, opPrev, ext, extPrev, memo,
                 nops, lastStrength>>

\* Time passes, also while a task runs (within addEntropy the clock is read
\* once, after the loop)
Elapse ==
  /\ pc = "mix" => call.i = HashLen
  /\ \E d \in TickSteps :
       /\ now + d <= MaxNow
       /\ now' = now + d
  /\ UNCHANGED <<proc, size, pool, position, lastUpdate, initialized, timers,
                 hasRandomInt, build, sha, op, opPrev, ext, extPrev, memo,
                 call, pc, nops, lastStrength>>

----------------------------------------------------------------------------
(* The server process: start-up, tool calls, exit *)

WatchdogMs == 15000

\* The process once server.connect has resolved
Serving ==
  [ state |-> "serving", exitCode |-> -1, transport |-> "open",
    watchdog |-> -1, event |-> "none" ]

\* startServer() up to `await server.connect(transport)`: the transport is
\* constructed and the exit handlers are registered
Starting ==
  [ state |-> "starting", exitCode |-> -1, transport |-> "new",
    watchdog |-> -1, event |-> "none" ]

\* process.stdin "close", SIGINT, SIGTERM
ExitEvents == {"stdinClose", "SIGINT", "SIGTERM"}

\* An exit handler that leaves the transport open
HandleExitNoClose(p, event, t) ==
  [p EXCEPT !.state = "exited", !.exitCode = 0, !.watchdog = t + WatchdogMs,
            !.event = event]

\* handleExit: setTimeout(() => process.exit(0), 15000); transport.close();
\* process.exit(0)
HandleExitResult(p, event, t) ==
  [p EXCEPT !.state = "exited", !.exitCode = 0, !.transport = "closed",
            !.watchdog = t + WatchdogMs, !.event = event]

\* server.connect(transport) resolves
ServerConnect ==
  /\ proc.state = "starting"
  /\ EventLoopIdle
  /\ proc' = [proc EXCEPT !.state = "serving", !.transport = "open"]
  /\ UNCHANGED <<size, pool, position, lastUpdate, initialized, now, timers,
                 hasRandomInt, build, sha, op, opPrev, ext, extPrev, memo,
                 call, pc, nops, lastStrength>>

\* startServer() rejects: console.error, process.exit(1)
ServerConnectFails ==
  /\ proc.state = "starting"
  /\ EventLoopIdle
  /\ proc' = [proc EXCEPT !.state = "exited", !.exitCode = 1,
                          !.event = "startFailed"]
  /\ UNCHANGED <<size, pool, position, lastUpdate, initialized, now, timers,
                 hasRandomInt, build, sha, op, opPrev, ext, extPrev, memo,
                 call, pc, nops, lastStrength>>

\* One of the exit events is emitted and handleExit runs
HandleExit ==
  /\ proc.state \in {"starting", "serving"}
  /\ EventLoopIdle
  /\ \E event \in ExitEvents : proc' = HandleExitResult(proc, event, now)
  /\ UNCHANGED <<size, pool, position, lastUpdate, initialized, now, timers,
                 hasRandomInt, build, sha, op, opPrev, ext, extPrev, memo,
                 call, pc, nops, lastStrength>>

----------------------------------------------------------------------------
(* Construction *)

\* crypto.randomBytes(size): arbitrary bytes; here the ramp 0, 3, 6, ..
RandomPools(n) == { [p \in 0..(n - 1) |-> (3 * p) % 256] }

\* The fields before the constructor body runs
Fresh(n, bytes, t) ==
  [ size |-> n, pool |-> bytes, position |-> 0, lastUpdate |-> t,
    initialized |-> FALSE ]

\* A seeding that collects the system snapshot first
SeedSystemFirst(P, t) == CollectTimingEntropy(CollectSystemEntropy(P, t), t)

\* seedInitialEntropy(): collectTimingEntropy(100); collectSystemEntropy()
SeedInitialEntropy(P, t) == Refresh(P, t)

\* new EntropyPool(size)
Constructed(n, bytes, t) == SeedInitialEntropy(Fresh(n, bytes, t), t)

NoMemo == [valid |-> FALSE, n |-> 0, pool |-> NoBytes, out |-> NoBytes]

\* The constructor's first collection is scheduled with the least delay;
\* PeriodicCollection reschedules with either end of the jitter.
InitCommon ==
  /\ now = 0
  /\ timers = <<Delay(0)>>
  /\ op = "constructor"
  /\ opPrev = "none"
  /\ ext = NoExt
  /\ extPrev = NoExt
  /\ memo = NoMemo
  /\ call = NoCall
  /\ pc = "idle"
  /\ nops = 0
  /\ lastStrength = SystemStrength
  /\ proc = Serving

InitPool(sizes, kinds) ==
  /\ sha \in kinds
  /\ \E n \in sizes : \E bytes \in RandomPools(n) :
       LET P == Constructed(n, bytes, 0)
       IN  /\ size = P.size
           /\ pool = P.pool
           /\ position = P.position
           /\ lastUpdate = P.lastUpdate
           /\ initialized = P.initialized

Init ==
  /\ InitCommon
  /\ hasRandomInt = TRUE
  /\ build = "ts"
  /\ InitPool(PoolSizes, ShaKinds)

Next ==
  \/ AddEntropyCall
  \/ GetRandomBytes
  \/ CollectTimingEntropyCall
  \/ CollectSystemEntropyCall
  \/ PeriodicCollection
  \/ Tick

Spec == Init /\ [][Next]_vars

InitDice ==
  /\ InitCommon
  /\ hasRandomInt \in BOOLEAN
  /\ build = "ts"
  /\ InitPool(PoolSizes, {"ff"})

NextDice ==
  \/ SecureRandomIntCall
  \/ RollDiceBegin
  \/ RollDie
  \/ RollDiceEnd

SpecDice == InitDice /\ [][NextDice]_vars

\* The pool operations statement by statement: rolls and timer callbacks
NextSteps ==
  \/ TaskGetRandomBytes
  \/ TaskTimer
  \/ TimingRound
  \/ MixBegin
  \/ MixWrite
  \/ MixEnd
  \/ GenerationRound
  \/ DeriveKey
  \/ TaskEnd
  \/ Elapse

SpecSteps == InitDice /\ [][NextSteps]_vars

\* The same, where the statement a running task has reached is executed:
\* JavaScript does not stop in the middle of synchronous code
RunTask ==
  \/ TimingRound
  \/ MixBegin
  \/ MixWrite
  \/ MixEnd
  \/ GenerationRound
  \/ DeriveKey
  \/ TaskEnd

SpecStepsFair == SpecSteps /\ WF_vars(RunTask)

\* The periodic collection alone, without end: a due timer callback is run
\* by the event loop, and time does not stop
NextTimer ==
  \/ ScheduledCollection
  \/ WaitForTimer

SpecTimer ==
  /\ Init
  /\ [][NextTimer]_vars
  /\ WF_vars(ScheduledCollection)
  /\ WF_vars(WaitForTimer)

\* parseDiceNotation applied to each notation, in each build
InitParse ==
  /\ InitPool(PoolSizes, {"ff"})
  /\ hasRandomInt = TRUE
  /\ build \in Builds
  /\ now = 0
  /\ timers = <<Delay(0)>>
  /\ op = "constructor"
  /\ opPrev = "none"
  /\ ext = NoExt
  /\ extPrev = NoExt
  /\ memo = NoMemo
  /\ pc = "parse"
  /\ nops = 0
  /\ lastStrength = SystemStrength
  /\ proc = Serving
  /\ \E s \in Notations : call = [NoCall EXCEPT !.input = s]

NextParse == ParseDiceNotationCall

SpecParse == InitParse /\ [][NextParse]_vars

\* The server from start-up on: the dice_roll tool is called while it
\* serves, time passes, and the process ends by an exit event or by a
\* failed start-up
InitServer ==
  /\ InitPool(PoolSizes, {"ff"})
  /\ hasRandomInt = TRUE
  /\ build = "ts"
  /\ now = 0
  /\ timers = <<Delay(0)>>
  /\ op = "constructor"
  /\ opPrev = "none"
  /\ ext = NoExt
  /\ extPrev = NoExt
  /\ memo = NoMemo
  /\ call = NoCall
  /\ pc = "idle"
  /\ nops = 0
  /\ lastStrength = SystemStrength
  /\ proc = Starting

\* The dice_roll tool handler runs rollDice while the server is connected
ToolCall ==
  /\ proc.state = "serving"
  /\ \/ RollDiceBegin
     \/ RollDie
     \/ RollDiceEnd

\* Time passes between two runs of JavaScript, while the process lives
TimePasses ==
  /\ proc.state # "exited"
  /\ EventLoopIdle
  /\ Tick

NextServer ==
  \/ ServerConnect
  \/ ServerConnectFails
  \/ HandleExit
  \/ ToolCall
  \/ TimePasses

SpecServer == InitServer /\ [][NextServer]_vars

\* The rejection-sampling secureRandomInt applied to each range
InitRejection ==
  /\ InitPool(PoolSizes, {"ff"})
  /\ hasRandomInt \in BOOLEAN
  /\ build = "ts"
  /\ now = 0
  /\ timers = <<Delay(0)>>
  /\ op = "constructor"
  /\ opPrev = "none"
  /\ ext = NoExt
  /\ extPrev = NoExt
  /\ memo = NoMemo
  /\ pc = "sampling"
  /\ nops = 0
  /\ lastStrength = SystemStrength
  /\ proc = Serving
  /\ \E mm \in IntRanges : call = [NoCall EXCEPT !.min = mm[1], !.max = mm[2]]

NextRejection == RejectionDraw

SpecRejection == InitRejection /\ [][NextRejection]_vars

\* collectSystemEntropy applied to each combination of readings
InitSnapshot ==
  /\ InitPool(PoolSizes, {"ff"})
  /\ hasRandomInt = TRUE
  /\ build = "ts"
  /\ now = 0
  /\ timers = <<Delay(0)>>
  /\ op = "constructor"
  /\ opPrev = "none"
  /\ ext = NoExt
  /\ extPrev = NoExt
  /\ memo = NoMemo
  /\ pc = "snapshot"
  /\ nops = 0
  /\ lastStrength = SystemStrength
  /\ proc = Serving
  /\ \E r \in SystemReadings : call = [NoCall EXCEPT !.readings = r]

NextSnapshot == CollectSystemSnapshot

SpecSnapshot == InitSnapshot /\ [][NextSnapshot]_vars

----------------------------------------------------------------------------
(* Properties of secureRandomInt and rollDice, under SpecDice *)

SecureRandomIntDone == call.fn = "secureRandomInt" /\ call.done

RollDiceReturned == call.fn = "rollDice" /\ call.done /\ call.threw = "none"

\* C1: secureRandomInt(min, max) returns r with min <= r <= max, on the
\* strong path and on the fallback path, for every value and bytes drawn.
C1_InRange ==
  SecureRandomIntDone => (call.min <= call.result /\ call.result <= call.max)

\* C1, where it fails: the fallback path assembled 4 bytes with the top bit
\* set into a negative 32-bit value, and returned less than min
C1_Negative ==
  /\ SecureRandomIntDone
  /\ ~hasRandomInt
  /\ ByteCount(call.max - call.min + 1) = 4
  /\ call.bytes[0] >= 128
  /\ call.result < call.min

Offsets == {-1, 0, 1}

\* The strong values that can give r: all of a small range; of a large one
\* the neighbours of r and the two ends (any other value lands more than one
\* away from r and does not wrap)
C2_StrongValues(min, max, r) ==
  IF max - min < SmallRange THEN min..max
  ELSE { c \in {r - 1, r, r + 1, min, max} : min <= c /\ c <= max }

C2_Pairs(min, max, r) ==
  { p \in C2_StrongValues(min, max, r) \X Offsets :
      StrongResult(p[1], p[2], min, max) = r }

\* C2: on the strong path the offset is one of -1, 0, +1, and every r of
\* [min, max] (every r of a small range, the r at the ends of a large one)
\* is produced by exactly 3 of the (strong value, offset) pairs, so a
\* uniform strong value and an independent offset give a uniform result.
C2_Uniform ==
  (SecureRandomIntDone /\ hasRandomInt) =>
    /\ Modifier(call.bytes) \in Offsets
    /\ \A r \in CryptoRandomSet(call.min, call.max) :
         Cardinality(C2_Pairs(call.min, call.max, r)) = 3

\* C2, a case: secureRandomInt(1, 6) drew the strong value 6 and the offset +1
\* and wrapped around to 1
C2_Wrapped ==
  /\ SecureRandomIntDone
  /\ hasRandomInt
  /\ call.min = 1
  /\ call.max = 6
  /\ call.strong = call.max
  /\ Modifier(call.bytes) = 1
  /\ call.result = call.min

\* The little-endian uint32 of four bytes, modulo 3: 256 = 1 (mod 3), so it
\* is the sum of the bytes modulo 3
C19_LEMod3(bytes) == (bytes[0] + bytes[1] + bytes[2] + bytes[3]) % 3

\* C19: on the strong path the result is strong + offset when that lies in
\* [min, max], max when it is below min and min when it is above max, where
\* offset = (little-endian uint32 of the 4 pool bytes, mod 3) - 1.
C19_StrongPath ==
  (SecureRandomIntDone /\ hasRandomInt) =>
    LET offset == C19_LEMod3(call.bytes) - 1
        sum == call.strong + offset
    IN  /\ DOMAIN call.bytes = 0..3
        /\ call.min <= call.strong /\ call.strong <= call.max
        /\ call.result = IF sum < call.min THEN call.max
                         ELSE IF sum > call.max THEN call.min
                         ELSE sum

\* C19, a case: secureRandomInt(1, 6) drew the strong value 1 and the bytes
\* FF FF FF FF (offset -1) and wrapped around to 6
C19_WrappedDown ==
  /\ SecureRandomIntDone
  /\ hasRandomInt
  /\ call.min = 1
  /\ call.max = 6
  /\ call.strong = call.min
  /\ call.bytes = [i \in 0..3 |-> 255]
  /\ call.result = call.max

\* C3: rollDice returns exactly count rolls, each in [1, sides] for a
\* standard configuration and in {-1, 0, 1} for a fate one.
C3_Rolls ==
  RollDiceReturned =>
    /\ Len(call.rolls) = call.cfg.count
    /\ \A i \in 1..Len(call.rolls) :
         IF call.cfg.type = "fate" THEN call.rolls[i] \in {-1, 0, 1}
         ELSE 1 <= call.rolls[i] /\ call.rolls[i] <= call.cfg.sides

\* C3, where it fails: a standard roll below 1, from the fallback path
C3_RollBelowOne ==
  /\ RollDiceReturned
  /\ ~hasRandomInt
  /\ call.cfg.type = "standard"
  /\ \E i \in 1..Len(call.rolls) : call.rolls[i] < 1

RECURSIVE C4_SumFirst(_, _)
C4_SumFirst(rolls, n) ==
  IF n = 0 THEN 0 ELSE C4_SumFirst(rolls, n - 1) + rolls[n]

\* C4: rollDice returns total = (sum of rolls) + modifier, an absent modifier
\* counting as 0; so total = modifier (or 0) when count = 0.
C4_Total ==
  RollDiceReturned =>
    /\ call.total = C4_SumFirst(call.rolls, Len(call.rolls))
                      + (IF call.cfg.hasModifier THEN call.cfg.modifier ELSE 0)
    /\ call.cfg.count = 0 =>
         call.total = (IF call.cfg.hasModifier THEN call.cfg.modifier ELSE 0)

\* C4, a case: two dice and the modifier -2
C4_TwoDiceAndModifier ==
  /\ RollDiceReturned
  /\ Len(call.rolls) = 2
  /\ call.cfg.hasModifier
  /\ call.cfg.modifier = -2
  /\ call.total = call.rolls[1] + call.rolls[2] - 2

DiceRollToolReturned == RollDiceReturned /\ call.tool

\* C13: the structured output of the dice_roll tool has the fields of its
\* declared output schema, rolls, total and original, at its top level,
\* holding the result of rollDice.
C13_StructuredOutput ==
  DiceRollToolReturned =>
    /\ OutputSchemaKeys \subseteq DOMAIN call.structured
    /\ call.structured.rolls = call.rolls
    /\ call.structured.total = call.total
    /\ call.structured.original = call.original

\* C13, where it fails: the result of 2d6-2 is nested under rollResult, and
\* the top level has none of the declared fields
C13_Nested ==
  /\ DiceRollToolReturned
  /\ call.original = <<"2", "d", "6", "-", "2">>
  /\ DOMAIN call.structured = {"rollResult"}
  /\ call.structured.rollResult.total = call.total

SecureRandomIntFallback == SecureRandomIntDone /\ ~hasRandomInt

RECURSIVE IsPowerOfTwo(_)
IsPowerOfTwo(n) == n = 1 \/ (n > 1 /\ n % 2 = 0 /\ IsPowerOfTwo(n \div 2))

\* The unsigned big-endian value of the k bytes, modulo the power of two m:
\* byte i weighs 256^(k-1-i), and only the part of it below m counts
C11_LowBits(bytes, k, m) ==
  LET part(i) ==
        LET w == 256^(k - 1 - i)
        IN  IF w >= m THEN 0
            ELSE IF m \div w >= 256 THEN bytes[i] * w
            ELSE (bytes[i] % (m \div w)) * w
      sum[i \in 0..k] == IF i = 0 THEN 0 ELSE sum[i - 1] + part(i - 1)
  IN  sum[k]

C11_Strings(k) == [0..(k - 1) -> Byte]

\* C11: on the fallback path, when range is an exact power of two, every
\* outcome of [min, max] is produced by the same number of the 256^byteCount
\* byte strings: the outcome is min + (the low bits of the unsigned value of
\* the bytes), and for one byte or none the strings are counted, each
\* outcome having 256^byteCount / range of them.
C11_NoBias ==
  (SecureRandomIntFallback /\ IsPowerOfTwo(call.max - call.min + 1)) =>
    LET range == call.max - call.min + 1
        k == ByteCount(range)
    IN  /\ call.result = call.min + C11_LowBits(call.bytes, k, range)
        /\ k <= 1 =>
             \A r \in call.min..call.max :
               Cardinality({ b \in C11_Strings(k) :
                               FallbackResult(b, call.min, call.max) = r })
                 = (256^k) \div range

\* C11, where it fails: range 2^25 takes 4 bytes; they were all 0xFF, the
\* 32-bit value was -1 and the outcome was min - 1
C11_NegativeRemainder ==
  /\ SecureRandomIntFallback
  /\ call.max - call.min + 1 = 2^25
  /\ call.bytes = [i \in 0..3 |-> 255]
  /\ call.result = call.min - 1

\* The k bytes of n, big-endian
C12_BigEndian(n, k) == [i \in 0..(k - 1) |-> (n \div 256^(k - 1 - i)) % 256]

\* The faces asked for: all those of a small die, those at the ends and at
\* the byte boundaries of a large one
C12_Faces(sides) ==
  IF sides <= 257 THEN 1..sides
  ELSE {1, 2, 256, 257, 65536, 65537, sides - 1, sides}

\* The byte strings tried on the fallback path for face v: every string of
\* one byte or none, the big-endian bytes of v - 1 for more
C12_Bytes(sides, v) ==
  IF ByteCount(sides) <= 1 THEN C11_Strings(ByteCount(sides))
  ELSE { C12_BigEndian(v - 1, ByteCount(sides)) }

----------------------------------------------------------------------------
(* Properties of parseDiceNotation, under SpecParse *)

ParseDone == call.fn = "parseDiceNotation" /\ call.done

\* The notation after whitespace removal and case folding
RECURSIVE C5_Fold(_)
C5_Fold(s) ==
  IF s = <<>> THEN <<>>
  ELSE IF Head(s) = " " THEN C5_Fold(Tail(s))
  ELSE <<(IF Head(s) = "D" THEN "d" ELSE IF Head(s) = "F" THEN "f" ELSE Head(s))>>
       \o C5_Fold(Tail(s))

C5_AllDigits(x) == \A i \in 1..Len(x) : x[i] \in DigitChars

\* The ways t reads as [count]d(sides|f)[+-modifier]: count is t[1..i], the
\* sides token t[i+2..j], the modifier t[j+1..]
C5_Splits(t) ==
  { ij \in (0..Len(t)) \X (0..Len(t)) :
      /\ ij[1] + 2 <= ij[2]
      /\ t[ij[1] + 1] = "d"
      /\ C5_AllDigits(SubSeq(t, 1, ij[1]))
      /\ \/ SubSeq(t, ij[1] + 2, ij[2]) = <<"f">>
         \/ C5_AllDigits(SubSeq(t, ij[1] + 2, ij[2]))
      /\ \/ ij[2] = Len(t)
         \/ /\ ij[2] + 2 <= Len(t)
            /\ t[ij[2] + 1] \in {"+", "-"}
            /\ C5_AllDigits(SubSeq(t, ij[2] + 2, Len(t))) }

C5_Matches(t) == C5_Splits(t) # {}

\* The decimal value of a digit string
RECURSIVE C5_Value(_)
C5_Value(x) ==
  IF x = <<>> THEN 0
  ELSE DigitValue(Head(x)) * 10^(Len(x) - 1) + C5_Value(Tail(x))

\* The configuration the notation denotes
C5_Denotes(t) ==
  LET ij == CHOOSE s \in C5_Splits(t) : TRUE
      count == SubSeq(t, 1, ij[1])
      sides == SubSeq(t, ij[1] + 2, ij[2])
      sign == IF ij[2] < Len(t) /\ t[ij[2] + 1] = "-" THEN -1 ELSE 1
  IN  [ type |-> IF sides = <<"f">> THEN "fate" ELSE "standard",
        count |-> IF count = <<>> THEN 1 ELSE C5_Value(count),
        sides |-> IF sides = <<"f">> THEN 3 ELSE C5_Value(sides),
        hasModifier |-> ij[2] < Len(t),
        modifier |-> IF ij[2] < Len(t)
                       THEN sign * C5_Value(SubSeq(t, ij[2] + 2, Len(t)))
                       ELSE 0 ]

\* C5 as stated: for every notation that matches the grammar after
\* whitespace removal and case folding, parseDiceNotation returns the count
\* (1 when omitted), the type and sides (fate and 3 exactly for F), and the
\* signed modifier (absent when none is written).
C5_Parse ==
  (ParseDone /\ C5_Matches(C5_Fold(call.input))) =>
    (call.threw = "none" /\ call.cfg = C5_Denotes(C5_Fold(call.input)))

\* C5, amended: the same for every matching notation whose sides are at
\* least 1, that is, whose configuration the schema accepts.
C5_ParseValid ==
  (/\ ParseDone
   /\ C5_Matches(C5_Fold(call.input))
   /\ C5_Denotes(C5_Fold(call.input)).sides >= 1) =>
    (call.threw = "none" /\ call.cfg = C5_Denotes(C5_Fold(call.input)))

\* C5, a case: count, sides and a negative modifier, written with an
\* upper-case D
C5_FullNotation ==
  /\ ParseDone
  /\ call.input = <<"2", "D", "2", "-", "2">>
  /\ call.threw = "none"
  /\ call.cfg = [type |-> "standard", count |-> 2, sides |-> 2,
                 hasModifier |-> TRUE, modifier |-> -2]

\* C6: parseDiceNotation throws a DiceRollError and returns nothing for every
\* input that does not match the grammar, and for every input that matches
\* it but yields a configuration the schema rejects; no other error escapes.
C6_DiceRollError ==
  (/\ ParseDone
   /\ \/ ~C5_Matches(C5_Fold(call.input))
      \/ C5_Denotes(C5_Fold(call.input)).sides < 1) =>
    (call.threw = "DiceRollError" /\ call.cfg = NoCfg)

\* C6, where it fails: d0 in the lib build, where a TypeError escapes
C6_TypeErrorEscapes ==
  /\ ParseDone
  /\ build = "lib"
  /\ call.input = <<"d", "0">>
  /\ call.threw = "TypeError"

----------------------------------------------------------------------------
(* Properties of the entropy pool, under Spec *)

\* C7: getRandomBytes(n) returns exactly n bytes and raises no error for
\* every n in {1, 4, 16, 256}.
C7_ExactBytes ==
  (op = "getRandomBytes" /\ ext.n \in {1, 4, 16, 256}) =>
    (~ext.threw /\ DOMAIN ext.out = 0..(ext.n - 1))

\* C7, where it fails: getRandomBytes(256) threw in its second round
C7_Threw256 ==
  /\ op = "getRandomBytes"
  /\ ext.n = 256
  /\ ext.threw
  /\ ext.out = NoBytes

\* C8: in every reachable state the buffer has the length fixed at
\* construction and every byte of it is in [0, 255].
C8_Buffer ==
  /\ [](pool \in [0..(size - 1) -> Byte])
  /\ [][size' = size]_vars

\* C8, a case: after two direct mixes some bytes have been driven to 255 and
\* others have not
C8_MixedToMax ==
  /\ op = "addEntropy"
  /\ opPrev = "addEntropy"
  /\ \E p \in DOMAIN pool : pool[p] = 255
  /\ \E p \in DOMAIN pool : pool[p] < 255

\* C9: in every reachable state 0 <= position < pool length.
C9_Cursor == position \in 0..(size - 1)

\* C9, a case: a mix has just moved the cursor past the end of the buffer,
\* wrapping it
C9_Wrapped ==
  /\ nops > 0
  /\ op \in {"addEntropy", "getRandomBytes"}
  /\ position < HashLen

ConsecutiveGets ==
  /\ op = "getRandomBytes"
  /\ opPrev = "getRandomBytes"
  /\ ext.n = 32
  /\ extPrev.n = 32
  /\ ~ext.refreshed

\* C10: two consecutive getRandomBytes(32) calls, with no mix between them
\* other than the first call's feedback, return different byte sequences.
C10_Differ == ConsecutiveGets => ext.out # extPrev.out

\* C10, where it fails: every byte of the first call's feedback digest was
\* 0..4 above the pool byte it was mixed into, the pool content stayed as it
\* was, and the second call returned the same bytes
C10_Repeated ==
  /\ ConsecutiveGets
  /\ extPrev.near
  /\ memo.pool = pool
  /\ ext.out = extPrev.out

----------------------------------------------------------------------------
(* Properties of one mix, under Spec *)

\* A step that is one addEntropy call: a direct one, or the one of a timing
\* or system collection.  Its digest is Sha512(sha, ThePool), its strength
\* argument lastStrength'.
SingleMixStep ==
  /\ nops' = nops + 1
  /\ op' \in {"addEntropy", "collectTimingEntropy", "collectSystemEntropy"}

\* Strength s (hundredths) clamped into [0.01, 1.0]
Clamped(s) == IF s < 1 THEN 1 ELSE IF s > 100 THEN 100 ELSE s

\* old * (1 - s) + digestByte * s, in hundredths
Blend100(old, digestByte, k) == old * (100 - k) + digestByte * k

\* The pool byte before the step and the digest byte mixed into it, by i
OldByte(i) == pool[(position + i) % size]
DigestByte(i) == Sha512(sha, ThePool)[i]
NewByte(i) == pool'[(position + i) % size]

\* The pool as the constructor left it
ConstructedPool ==
  Constructed(size, CHOOSE b \in RandomPools(size) : TRUE, 0).pool

\* C14 as stated: one mix replaces each of the 64 pool bytes by
\* round(old*(1-s) + digestByte*s) & 0xFF, rounding to nearest, s being the
\* strength clamped into [0.01, 1.0].
C14_Round ==
  [][SingleMixStep =>
       \A i \in 0..(HashLen - 1) :
         NewByte(i) =
           ((2 * Blend100(OldByte(i), DigestByte(i), Clamped(lastStrength'))
               + 100) \div 200) % 256]_vars

\* C14, amended: one mix replaces each of the 64 pool bytes by the blend
\* rounded down, floor(old*(1-s) + digestByte*s) & 0xFF; the expression is
\* evaluated in double precision, which gives the exact floor at strengths
\* 0.2, 0.5 and 1.0 and the exact floor or one less at the others.
C14_Floor ==
  [][SingleMixStep =>
       \A i \in 0..(HashLen - 1) :
         LET exact == Blend100(OldByte(i), DigestByte(i),
                               Clamped(lastStrength')) \div 100
         IN  /\ NewByte(i) \in {exact, exact - 1}
             /\ NewByte(i) \in Byte
             /\ Clamped(lastStrength') \in {20, 50, 100} => NewByte(i) = exact]_vars

\* C14, a case: a mix at strength 0.5 of a digest 5 above the pool bytes has
\* raised a byte by 2 (the blend old + 2.5 rounded down)
C14_RoundedDown ==
  /\ nops = 1
  /\ op = "addEntropy"
  /\ lastStrength = DefaultStrength
  /\ sha = "plus5"
  /\ \E p \in DOMAIN pool : pool[p] = ConstructedPool[p] + 2

\* C15: the byte written by one mix lies between min(old, digestByte) and
\* max(old, digestByte) inclusive, and at strength 1.0 it is the digest byte.
C15_Between ==
  [][SingleMixStep =>
       \A i \in 0..(HashLen - 1) :
         /\ Min(OldByte(i), DigestByte(i)) <= NewByte(i)
         /\ NewByte(i) <= Max(OldByte(i), DigestByte(i))
         /\ Clamped(lastStrength') = 100 => NewByte(i) = DigestByte(i)]_vars

\* C15, where it fails: a timing collection (strength 0.3) whose digest
\* equals the pool bytes it is mixed into has lowered a byte
C15_Lowered ==
  /\ nops = 1
  /\ op = "collectTimingEntropy"
  /\ sha = "same"
  /\ \E p \in DOMAIN pool : pool[p] = ConstructedPool[p] - 1

\* C16: one mix writes only the 64 positions (position + i) mod length,
\* i in 0..63, leaves every other pool byte as it was, and moves position to
\* (position + 64) mod length.
C16_Frame ==
  [][SingleMixStep =>
       /\ \A p \in 0..(size - 1) :
            (\A i \in 0..63 : p # (position + i) % size) => pool'[p] = pool[p]
       /\ position' = (position + 64) % size
       /\ size' = size]_vars

\* C16, a case: a full-strength mix of the digest 0xFF.. has set the 64
\* bytes from the cursor on, wrapping past the end of the buffer, to 255 and
\* left the others below 255; the cursor has moved on by 64
C16_WindowWritten ==
  /\ nops = 1
  /\ op = "addEntropy"
  /\ sha = "ff"
  /\ lastStrength > MaxStrength
  /\ \E start \in 0..(size - 1) :
       /\ position = (start + 64) % size
       /\ start + 64 > size
       /\ \A p \in 0..(size - 1) :
            IF (p - start) % size < 64 THEN pool[p] = 255 ELSE pool[p] < 255

----------------------------------------------------------------------------
(* Properties of getRandomBytes and its mixes, under Spec *)

\* A step that is one call of getRandomBytes on the pool
GetRandomBytesStep == nops' = nops + 1 /\ op' = "getRandomBytes"

\* The step of a periodic collection: one timing then one system collection
PeriodicStep == nops' = nops + 1 /\ op' = "periodicCollection"

\* The number of mixes a getRandomBytes step performs, read off the cursor:
\* the cursor moves by 64 per mix
MixesDone(k) == position' = (position + k * HashLen) % size

\* C17: a call refreshes the pool (one timing collection, then one system
\* collection) exactly when now - lastUpdate > 60000, strictly, at the start
\* of the call, and does so before the key is derived; lastUpdate is set to
\* the current time by every mix, the feedback mix included.
C17_Refresh ==
  [][/\ GetRandomBytesStep =>
          LET stale == now - lastUpdate > 60000
              fed == IF ext'.threw THEN 0 ELSE 1
          IN  /\ ext'.refreshed <=> stale
              /\ MixesDone((IF stale THEN 2 ELSE 0) + fed)
              /\ (stale /\ ~ext'.threw) =>
                    memo'.pool =
                      CollectSystemEntropy(
                        CollectTimingEntropy(ThePool, now), now).pool
              /\ (~stale /\ ~ext'.threw) => memo'.pool = pool
              /\ (stale \/ ~ext'.threw) => lastUpdate' = now
              /\ (~stale /\ ext'.threw) => lastUpdate' = lastUpdate
     /\ (SingleMixStep \/ PeriodicStep) => lastUpdate' = now]_vars

\* C17, a case: a call made 60001 ms after construction has refreshed the
\* pool and fed back (three mixes), and lastUpdate is the time of the call
C17_RefreshedJustPast ==
  /\ nops = 1
  /\ op = "getRandomBytes"
  /\ now = UpdateInterval + 1
  /\ ext.refreshed
  /\ ~ext.threw
  /\ lastUpdate = now
  /\ memo.valid
  /\ memo.pool # ConstructedPool

\* The cursor when the key is derived: past the two mixes of a refresh
KeyPosition ==
  (position + (IF now - lastUpdate > 60000 THEN 2 * HashLen ELSE 0)) % size

\* C18: every call of getRandomBytes that returns performs exactly one
\* feedback mix, at strength 0.2, after the output is generated; the bytes
\* returned derive from the pool as it was before that feedback.
C18_Feedback ==
  [][(GetRandomBytesStep /\ ~ext'.threw) =>
       /\ lastStrength' = 20
       /\ position' = (KeyPosition + HashLen) % size
       /\ memo'.valid /\ memo'.out = ext'.out /\ DOMAIN ext'.out = 0..(ext'.n - 1)
       /\ ext'.out \in PrfSet([ThePool EXCEPT !.pool = memo'.pool], ext'.n)
       /\ \A p \in 0..(size - 1) :
            LET i == (p - KeyPosition) % size
                d == Sha512(sha, [ThePool EXCEPT !.pool = memo'.pool,
                                                 !.position = KeyPosition])[i]
            IN  pool'[p] = IF i < HashLen
                           THEN (memo'.pool[p] * 80 + d * 20) \div 100
                           ELSE memo'.pool[p]]_vars

\* C18, a case: a call on a fresh pool has returned bytes derived from the
\* pool as constructed, and its feedback at 0.2 has then changed the pool
C18_FedBack ==
  /\ nops = 1
  /\ op = "getRandomBytes"
  /\ ~ext.threw
  /\ ~ext.refreshed
  /\ lastStrength = FeedbackStrength
  /\ memo.valid
  /\ memo.pool = ConstructedPool
  /\ memo.out = ext.out
  /\ pool # ConstructedPool

----------------------------------------------------------------------------
(* Properties of the system snapshot, under SpecSnapshot *)

SnapshotTaken == call.fn = "collectSystemEntropy" /\ call.done

\* C20: every 32-bit field of the system snapshot (hrtime, rss, heapTotal,
\* heapUsed, totalMem, freeMem, uptime) is stored as value mod 2^32; a value
\* of 2^32 - 1 is stored as 2^32 - 1 and not as 0.
C20_ModTwoTo32 ==
  SnapshotTaken =>
    \A j \in 1..Len(ReducedFields) :
      LET v == call.readings[ReducedFields[j]]
          stored == call.snapshot[ReducedFields[j]]
      IN  /\ stored = <<v[2], v[3]>>
          /\ v = <<0, 65535, 65535>> => stored = <<65535, 65535>>

\* C20, where it fails: a snapshot taken with 2^32 - 1 bytes of resident set
\* stored 0 in the rss field, and with 2^33 bytes of total memory stored 2
C20_StoredZero ==
  /\ SnapshotTaken
  /\ call.readings["rss"] = <<0, 65535, 65535>>
  /\ call.snapshot["rss"] = <<0, 0>>
  /\ call.readings["totalMem"] = <<2, 0, 0>>
  /\ call.snapshot["totalMem"] = <<0, 2>>

----------------------------------------------------------------------------
(* Properties of construction and of the periodic collection, under Spec *)

\* The state the constructor returns in
JustConstructed == nops = 0 /\ op = "constructor"

\* C21: the constructor fills the buffer with random bytes, then runs one
\* timing collection, then one system collection; when it returns,
\* initialized is true and exactly two mixes have been applied (position =
\* 128 mod length); initialized never becomes false again.
C21_Seeded ==
  /\ initialized
  /\ JustConstructed =>
       /\ position = 128 % size
       /\ \E bytes \in RandomPools(size) :
            pool = CollectSystemEntropy(
                     CollectTimingEntropy(
                       [ size |-> size, pool |-> bytes, position |-> 0,
                         lastUpdate |-> 0, initialized |-> FALSE ], 0), 0).pool

\* C21, a case: the pool as constructed, seeded with a digest of 0xFF..: the
\* first window (timing, 0.3) is raised less than the second (system, 0.4)
C21_SeededInOrder ==
  /\ JustConstructed
  /\ initialized
  /\ sha = "ff"
  /\ position = 128 % size
  /\ \E bytes \in RandomPools(size) :
       /\ pool[HashLen - 1] - bytes[HashLen - 1] < 255 - pool[HashLen - 1]
       /\ pool[HashLen] - bytes[HashLen] > 0
       /\ pool # bytes

\* C22: each run of the periodic collection (one timing, then one system
\* collection) schedules exactly one next run, with delay 60000 ms plus a
\* jitter in [0, 10000) ms; exactly one run is pending at every moment,
\* and a run keeps occurring forever.
C22_Rescheduled ==
  /\ [](Len(timers) = 1)
  /\ [](timers[1] - now <= 60000 + 9999)
  /\ [][ScheduledCollection =>
          /\ Head(timers) <= now
          /\ Len(timers') = 1
          /\ timers'[1] - now' \in 60000..(60000 + 9999)
          /\ position' = (position + 2 * HashLen) % size
          /\ lastStrength' = SystemStrength]_vars
  /\ []<>(op = "periodicCollection" /\ now = 0)
  /\ []<>(now > 0)

\* C22, a case: a run has taken place and the next one is pending, due
\* 69999 ms after it
C22_NextPending ==
  /\ op = "periodicCollection"
  /\ opPrev = "periodicCollection"
  /\ now = 0
  /\ timers = <<UpdateInterval + JitterMs - 1>>

----------------------------------------------------------------------------
(* Properties of the pool operations statement by statement, under SpecSteps *)

\* C23: pool mutations are atomic with respect to each other.  A timer
\* callback and a roll's getRandomBytes never interleave inside one mix or
\* inside one getRandomBytes: a task starts only when no task is running,
\* and within a mix the cursor and the bytes are those the mix started from,
\* changed only by its own writes.
C23_Atomic ==
  /\ [][(call'.owner # call.owner) =>
          \/ call.owner = "none" /\ pc = "idle"
          \/ call'.owner = "none" /\ call.todo = <<>>]_vars
  /\ [](pc # "idle" <=> call.owner # "none")
  /\ [](pc = "mix" =>
          /\ position = call.start
          /\ \A p \in 0..(size - 1) :
               LET off == (p - call.start) % size
               IN  pool[p] = IF off < call.i
                             THEN MixByte(call.before[p], call.hash[off], call.k)
                             ELSE call.before[p])

\* C23, a case: the timer has come due while the feedback mix of a roll's
\* getRandomBytes is half done; the callback has not started
C23_TimerWaits ==
  /\ pc = "mix"
  /\ call.owner = "roll"
  /\ Head(call.todo) = "feedback"
  /\ call.i = 32
  /\ timers # <<>>
  /\ Head(timers) <= now
  /\ pool # call.before

\* A step that is one round of the generation loop of getRandomBytes
GenerationRoundStep == call'.rounds = call.rounds + 1

\* C24: every pool operation terminates: a mix after 64 byte writes, a
\* timing collection after exactly `iterations` rounds, getRandomBytes(n)
\* after at most ceil(n/64) rounds of its generation loop, each round
\* adding at least one byte to the output.
C24_Terminates ==
  /\ [](pc = "mix" => call.i <= 64)
  /\ [][(pc = "mix" /\ pc' # "mix") => call.i = 64]_vars
  /\ [](call.iter <= 50)
  /\ [][(pc = "run" /\ pc' = "mix" /\ Head(call.todo) = "timing") =>
          call.iter = 50]_vars
  /\ [](call.rounds <= (call.n + 63) \div 64)
  /\ [][GenerationRoundStep => call'.generated > call.generated]_vars
  /\ [](pc # "idle" ~> pc = "idle")

\* C24, where it fails: getRandomBytes(65) has entered a second round of
\* its generation loop, which threw with 64 of the 65 bytes generated
C24_RoundWithoutBytes ==
  /\ call.owner = "roll"
  /\ call.n = 65
  /\ call.rounds = 2
  /\ call.generated = 64
  /\ ext.threw

----------------------------------------------------------------------------
(* Properties of the rejection-sampling secureRandomInt, under SpecRejection *)

RejectionDone == call.fn = "secureRandomInt" /\ call.done /\ ~hasRandomInt

\* The unsigned big-endian value of a string of up to three bytes
C25_Value(bytes, n) ==
  IF n = 0 THEN 0
  ELSE IF n = 1 THEN bytes[0]
  ELSE IF n = 2 THEN bytes[0] * 256 + bytes[1]
  ELSE bytes[0] * 65536 + bytes[1] * 256 + bytes[2]

\* The one-byte draws that are accepted and give outcome r
C25_Draws(min, max, r) ==
  LET range == max - min + 1
  IN  { b \in Byte : b < 256 - (256 % range) /\ min + (b % range) = r }

\* C25: the rejection-sampling secureRandomInt accepts a draw only when
\* value < cutoff, where cutoff = 256^byteCount - (256^byteCount mod range)
\* is a positive multiple of range; every outcome of [min, max] has exactly
\* cutoff/range accepted draws, and for range = 1 it returns min without
\* looping.
C25_Unbiased ==
  RejectionDone =>
    LET range == call.max - call.min + 1
        n == ByteCount(range)
    IN  /\ DOMAIN call.bytes = 0..(n - 1)
        /\ call.min <= call.result /\ call.result <= call.max
        /\ n <= 3 =>
             LET maxValue == 256 ^ n
                 cutoff == maxValue - (maxValue % range)
                 value == C25_Value(call.bytes, n)
             IN  /\ cutoff > 0 /\ cutoff % range = 0
                 /\ value < cutoff
                 /\ call.result = call.min + (value % range)
        /\ n = 1 =>
             \A r \in call.min..call.max :
               Cardinality(C25_Draws(call.min, call.max, r))
                 = (256 - (256 % range)) \div range
        /\ range = 1 => call.result = call.min /\ call.rounds = 1

\* C25, where it fails: with range 2^24 + 1 the draw FF FF FF FF, which is
\* -1 as a 32-bit signed value, is accepted and gives min - 1
C25_NegativeAccepted ==
  /\ RejectionDone
  /\ call.max - call.min + 1 = BigSides
  /\ call.bytes = [i \in 0..3 |-> 255]
  /\ call.result = call.min - 1

----------------------------------------------------------------------------
(* Properties of rollDice with a rejected configuration, under SpecDice *)

\* A configuration the schema accepts
C26_Accepted(cfg, fractional) ==
  /\ cfg.type = "standard" \/ cfg.type = "fate"
  /\ cfg.count >= 0
  /\ cfg.sides >= 1
  /\ fractional = "none"

\* C26: rollDice validates the configuration before any die is rolled: for
\* a configuration the schema rejects (unknown type, negative or non-integer
\* count, sides < 1, non-integer modifier) it fails with a validation error,
\* draws no random value and leaves pool, position and lastUpdate unchanged.
C26_ValidatedFirst ==
  /\ [][(nops' = nops + 1 /\ op' = "rollDice"
          /\ ~C26_Accepted(call'.cfg, call'.fractional)) =>
            /\ call'.threw = "ZodError"
            /\ call'.done
            /\ pc' = "idle"
            /\ pool' = pool /\ position' = position
            /\ lastUpdate' = lastUpdate
            /\ memo' = memo /\ ext' = ext]_vars
  /\ []((call.fn = "rollDice" /\ ~C26_Accepted(call.cfg, call.fractional)) =>
          /\ call.threw = "ZodError"
          /\ call.rolls = <<>>
          /\ call.bytes = NoBytes
          /\ pc = "idle")

\* C26, a case: rollDice with a standard configuration of negative count has
\* thrown and the pool is as constructed
C26_NegativeCount ==
  /\ call.fn = "rollDice"
  /\ call.cfg.type = "standard"
  /\ call.cfg.count < 0
  /\ call.cfg.sides = 6
  /\ call.fractional = "none"
  /\ call.threw = "ZodError"
  /\ call.rolls = <<>>
  /\ pool = ConstructedPool
  /\ position = 128 % size

----------------------------------------------------------------------------
(* Properties of the server process, under SpecServer *)

\* C27: after any of stdin close, SIGINT or SIGTERM the server closes its
\* transport and the process exits with code 0, at the latest when the
\* 15000 ms safety timeout fires; a failure of server start-up makes the
\* process exit with code 1 instead.
C27_Exit ==
  /\ [][(proc'.event \in {"stdinClose", "SIGINT", "SIGTERM"}
          /\ proc.event = "none") =>
            /\ proc'.state = "exited"
            /\ proc'.exitCode = 0
            /\ proc'.transport = "closed"
            /\ proc'.watchdog = now + 15000
            /\ now' <= proc'.watchdog]_vars
  /\ [][(proc.state # "exited" /\ proc'.state = "exited"
          /\ proc'.event \notin {"stdinClose", "SIGINT", "SIGTERM"}) =>
            /\ proc.state = "starting"
            /\ proc'.exitCode = 1]_vars
  /\ [][proc.state = "exited" => proc' = proc]_vars
  /\ [](proc.state = "exited" <=> proc.exitCode \in {0, 1})

\* C27, a case: SIGTERM arrived after a dice_roll call was served, 60 s or
\* more after start-up; the transport is closed and the exit code is 0
C27_ExitedOnSigterm ==
  /\ proc.state = "exited"
  /\ proc.event = "SIGTERM"
  /\ proc.exitCode = 0
  /\ proc.transport = "closed"
  /\ call.fn = "rollDice"
  /\ call.done
  /\ now >= UpdateInterval

====
